---- MODULE Spec2Model ----
(***************************************************************************)
(* Order-analytics loader of the dashboard route (src/unnamed/part_001):   *)
(* the paginated order fetch with per-page retry and backoff, the products *)
(* and locations requests, and the aggregation of the fetched orders.      *)
(***************************************************************************)
EXTENDS Integers, Sequences, FiniteSets, TLC

\* ------------------------------------------------------------------------
\* Program constants
\* ------------------------------------------------------------------------
MAX_PAGES == 20
maxRetries == 3
PacingDelay == 1500
ThrottleBase == 4000
OtherBase == 3000

\* ------------------------------------------------------------------------
\* Bounds of the model
\* ------------------------------------------------------------------------
\* orders on one upstream page (the program asks for 250)
OrdersPerPage == 1
\* successful responses of one run that depart from a well-formed page
\* (has-more without a usable end cursor, or a page without an edge list)
MaxAnomalies == 1
\* failed orders requests of one run
MaxFailures == 4

\* ------------------------------------------------------------------------
\* JavaScript values
\* ------------------------------------------------------------------------
Null == "null"
Undefined == "undefined"
\* truthiness of a cursor value: null, undefined and "" are falsy
Truthy(v) == v \notin {Null, Undefined, ""}
\* x || null
OrNull(v) == IF Truthy(v) THEN v ELSE Null

\* String.prototype.includes, on the messages that occur
Includes(msg, needle) ==
    CASE needle = "Throttled" ->
            msg \in {"Throttled"}
      [] needle = "fetch failed" ->
            msg \in {"fetch failed"}
      [] OTHER -> FALSE

\* ------------------------------------------------------------------------
\* JavaScript numbers: IEEE 754 binary64, round to nearest, ties to even
\* ------------------------------------------------------------------------
\* The numbers computed here are never negative and stay far from the
\* largest and the smallest binary64 value.  A number is NaN, Infinity, zero
\* or m * 2^e with a significand m of exactly 53 bits; a significand, and
\* every intermediate value, is written as three digits in base 2^24, least
\* significant first.
LimbBase == 2 ^ 24
MantissaTop == 2 ^ 4

NaN == [kind |-> "NaN", m |-> << 0, 0, 0 >>, e |-> 0]
Infinity == [kind |-> "Infinity", m |-> << 0, 0, 0 >>, e |-> 0]
Zero == [kind |-> "finite", m |-> << 0, 0, 0 >>, e |-> 0]

IsZero(a) == a.kind = "finite" /\ a.m = << 0, 0, 0 >>

\* the number of bits of a natural n < 2^24
BitLength(n) == CHOOSE k \in 0..24 : n < 2 ^ k /\ (k = 0 \/ 2 ^ (k - 1) <= n)

\* floor(x / p) for p = 2^r, r < 24
ShiftRight(x, p) ==
    << x[1] \div p + (x[2] % p) * (LimbBase \div p),
       x[2] \div p + (x[3] % p) * (LimbBase \div p),
       x[3] \div p >>

\* x + 1
Increment(x) ==
    IF x[1] + 1 < LimbBase THEN << x[1] + 1, x[2], x[3] >>
    ELSE IF x[2] + 1 < LimbBase THEN << 0, x[2] + 1, x[3] >>
    ELSE << 0, 0, x[3] + 1 >>

\* the number nearest to x * 2^e, for a natural x of k + 53 bits; of two
\* nearest numbers the one with the even significand
RoundAt(x, e, k) ==
    LET p == 2 ^ k
        low == x[1] % p
        q == ShiftRight(x, p)
        up == 2 * low > p \/ (2 * low = p /\ q[1] % 2 = 1)
        r == IF up THEN Increment(q) ELSE q
    IN  IF r[3] >= 2 * MantissaTop
        THEN [kind |-> "finite", m |-> << 0, 0, MantissaTop >>, e |-> e + k + 1]
        ELSE [kind |-> "finite", m |-> r, e |-> e + k]

\* the number nearest to x * 2^e, for 2^52 <= x < 2^72
RoundToNumber(x, e) == RoundAt(x, e, BitLength(x[3]) - 5)

\* floor(x / 2^d), with the lowest bit set when a set bit was shifted out
ShiftRightSticky(x, d) ==
    LET q == d \div 24
        p == 2 ^ (d % 24)
        y == IF q = 0 THEN x
             ELSE IF q = 1 THEN << x[2], x[3], 0 >>
             ELSE IF q = 2 THEN << x[3], 0, 0 >>
             ELSE << 0, 0, 0 >>
        lost == \/ q >= 1 /\ x[1] # 0
                \/ q >= 2 /\ x[2] # 0
                \/ q >= 3 /\ x[3] # 0
                \/ y[1] % p # 0
        z == ShiftRight(y, p)
    IN  IF lost /\ z[1] % 2 = 0 THEN << z[1] + 1, z[2], z[3] >> ELSE z

\* x * n, for x < 2^53 and 0 < n < 128
TimesSmall(x, n) ==
    LET p1 == x[1] * n
        p2 == x[2] * n + p1 \div LimbBase
        p3 == x[3] * n + p2 \div LimbBase
    IN  << p1 % LimbBase, p2 % LimbBase, p3 >>

\* a + b: with three more bits below the significands, the one of the
\* smaller exponent is shifted to the larger exponent, and the sum, of 56 or
\* 57 bits, is rounded
NumAdd(a, b) ==
    LET hi == IF a.e >= b.e THEN a ELSE b
        lo == IF a.e >= b.e THEN b ELSE a
        d == hi.e - lo.e
        y == IF d >= 3 THEN ShiftRightSticky(lo.m, d - 3)
             ELSE TimesSmall(lo.m, 2 ^ (3 - d))
        s1 == hi.m[1] * 8 + y[1]
        s2 == hi.m[2] * 8 + y[2] + s1 \div LimbBase
        s3 == hi.m[3] * 8 + y[3] + s2 \div LimbBase
    IN  IF a.kind = "NaN" \/ b.kind = "NaN" THEN NaN
        ELSE IF a.kind = "Infinity" \/ b.kind = "Infinity" THEN Infinity
        ELSE IF IsZero(a) THEN b
        ELSE IF IsZero(b) THEN a
        ELSE RoundAt(<< s1 % LimbBase, s2 % LimbBase, s3 >>, hi.e - 3,
                     IF s3 >= 16 * MantissaTop THEN 4 ELSE 3)

\* n * a, for a natural n < 128
NumTimes(n, a) ==
    IF a.kind = "NaN" THEN NaN
    ELSE IF a.kind = "Infinity" THEN (IF n = 0 THEN NaN ELSE Infinity)
    ELSE IF n = 0 \/ IsZero(a) THEN Zero
    ELSE RoundToNumber(TimesSmall(a.m, n), a.e)

\* a / n, for a natural n < 128: the quotient of a.m * 2^19 by n, its lowest
\* bit set when a remainder is left, is rounded
NumOver(a, n) ==
    LET x == << (a.m[1] % 32) * 524288,
                a.m[1] \div 32 + (a.m[2] % 32) * 524288,
                a.m[2] \div 32 + a.m[3] * 524288 >>
        q3 == x[3] \div n
        c2 == (x[3] % n) * LimbBase + x[2]
        q2 == c2 \div n
        c1 == (c2 % n) * LimbBase + x[1]
        q1 == c1 \div n
        sticky == IF c1 % n # 0 /\ q1 % 2 = 0 THEN 1 ELSE 0
    IN  IF a.kind = "NaN" THEN NaN
        ELSE IF a.kind = "Infinity" THEN Infinity
        ELSE IF n = 0 THEN (IF IsZero(a) THEN NaN ELSE Infinity)
        ELSE IF IsZero(a) THEN Zero
        ELSE RoundToNumber(<< q1 + sticky, q2, q3 >>, a.e - 19)

\* the number of a natural n < 2^20
NumOfNat(n) == IF n = 0 THEN Zero ELSE RoundToNumber(<< 0, 0, n * 16 >>, 0 - 52)

\* ------------------------------------------------------------------------
\* The upstream order collection: pages addressed by continuation cursor
\* ------------------------------------------------------------------------
\* the opaque end cursor the upstream hands out with page p
EndCursorOf(p) == ToString(p)

\* the page a request reads: the first one without `after`, else the one
\* following the page whose end cursor it carries
PageIndex(after) ==
    IF after = Undefined THEN 1
    ELSE 1 + (CHOOSE p \in 1..(MAX_PAGES + 1) : EndCursorOf(p) = after)

OrderId(p, i) == (p - 1) * OrdersPerPage + i

\* a processedAt that is null
NoTimestamp == [year |-> 0, month |-> 0, day |-> 0, hour |-> 0]
\* a shippingAddress that is null
NoAddress == [present |-> FALSE, city |-> ""]

\* a line item's product: its id and title; NoProduct is a null product
Product(id, title) == [present |-> TRUE, id |-> id, title |-> title]
NoProduct == [present |-> FALSE, id |-> "", title |-> ""]

\* the order nodes of the upstream collection, by order id.  A timestamp is
\* a UTC date and hour; customer is the customer's id, or Null; an
\* address's city "" is a missing city.
Node(id) ==
    [ id |-> id,
      processedAt |-> IF id % 5 = 0 THEN NoTimestamp
                      ELSE [year |-> IF id % 7 = 0 THEN 2024 ELSE 2025,
                            month |-> 12 - (id % 12), day |-> 1 + (id % 28),
                            hour |-> (id * 5) % 24],
      createdAt |-> [year |-> IF id % 7 = 0 THEN 2024 ELSE 2025,
                     month |-> 12 - (id % 12), day |-> 1 + (id % 28),
                     hour |-> (id * 5) % 24],
      amount |-> IF id % 3 = 0 THEN "200.00"
                 ELSE IF id % 3 = 1 THEN "100.00" ELSE "50.00",
      displayFulfillmentStatus |-> IF id % 2 = 0 THEN "FULFILLED" ELSE "UNFULFILLED",
      displayFinancialStatus |-> IF id % 3 = 0 THEN "PENDING" ELSE "PAID",
      customer |-> IF id % 4 = 0 THEN Null
                   ELSE IF id % 4 = 1 THEN "c1" ELSE IF id % 4 = 2 THEN "c2" ELSE "c3",
      lineItems |-> << [product |-> IF id % 2 = 0 THEN Product("p1", "Widget")
                                      ELSE Product("p2", "Gadget"),
                        quantity |-> 1 + (id % 3), price |-> "50.00"] >>,
      shippingAddress |-> IF id % 6 = 0 THEN NoAddress
                          ELSE [present |-> TRUE,
                                city |-> IF id % 6 = 1 THEN ""
                                         ELSE IF id % 2 = 0 THEN "Springfield"
                                         ELSE "Shelbyville"] ]

\* the edge list of upstream page p, as order ids
Page(p) == [i \in 1..OrdersPerPage |-> OrderId(p, i)]

\* the sizes, in pages, of the upstream collections considered; the last
\* one exceeds the page cap
UpstreamSizes == {1, 3, MAX_PAGES, MAX_PAGES + 5}

\* responses to the orders request.  kind "reject": admin.graphql or json()
\* rejects with `message`; kind "errors": the body carries errors[0].message;
\* kind "nodata": a body without data.orders; kind "page": data.orders, whose
\* edges and pageInfo may be absent.  endCursor "own" is the end cursor of
\* the page served.
FailureResponses ==
    [kind : {"reject"}, message : {"fetch failed", "socket hang up"},
     hasEdges : {FALSE}, hasPageInfo : {FALSE}, hasNextPage : {FALSE},
     endCursor : {Undefined}]
    \cup
    [kind : {"errors"},
     message : {"Throttled", "Internal error"},
     hasEdges : {FALSE}, hasPageInfo : {FALSE}, hasNextPage : {FALSE},
     endCursor : {Undefined}]
    \cup
    [kind : {"nodata"}, message : {""},
     hasEdges : {FALSE}, hasPageInfo : {FALSE}, hasNextPage : {FALSE},
     endCursor : {Undefined}]

PageResponses ==
    \* data.orders with edges and pageInfo
    [kind : {"page"}, message : {""},
     hasEdges : {TRUE}, hasPageInfo : {TRUE}, hasNextPage : BOOLEAN,
     endCursor : {"own"}]
    \cup
    \* more pages announced, and a null end cursor
    [kind : {"page"}, message : {""},
     hasEdges : {TRUE}, hasPageInfo : {TRUE}, hasNextPage : {TRUE},
     endCursor : {Null}]
    \cup
    \* data.orders without edges
    [kind : {"page"}, message : {""},
     hasEdges : {FALSE}, hasPageInfo : {TRUE}, hasNextPage : BOOLEAN,
     endCursor : {"own"}]
    \cup
    \* data.orders without pageInfo
    [kind : {"page"}, message : {""},
     hasEdges : {TRUE}, hasPageInfo : {FALSE}, hasNextPage : {FALSE},
     endCursor : {Undefined}]

OrdersResponses == FailureResponses \cup PageResponses

\* the response a well-behaved upstream of `size` pages gives for page p
WellFormed(p, size) ==
    [kind |-> "page", message |-> "", hasEdges |-> TRUE, hasPageInfo |-> TRUE,
     hasNextPage |-> (p < size), endCursor |-> "own"]

\* the message of the error the try block throws on a response, "" if none
ThrownMessage(resp) ==
    CASE resp.kind = "reject" -> resp.message
      [] resp.kind = "errors" ->
            IF Includes(resp.message, "Throttled") THEN "Throttled"
            ELSE "GraphQL Error: " \o resp.message
      [] resp.kind = "nodata" -> "Invalid GraphQL response structure"
      [] OTHER -> ""

\* ------------------------------------------------------------------------
\* processAnalyticsData
\* ------------------------------------------------------------------------
months2025 == << "Jan 2025", "Feb 2025", "Mar 2025", "Apr 2025",
                 "May 2025", "Jun 2025", "Jul 2025", "Aug 2025",
                 "Sep 2025", "Oct 2025", "Nov 2025", "Dec 2025" >>

MonthNames == << "Jan", "Feb", "Mar", "Apr", "May", "Jun",
                 "Jul", "Aug", "Sep", "Oct", "Nov", "Dec" >>

DaysInMonth(y, m) ==
    IF m = 2 THEN (IF y % 4 = 0 /\ (y % 100 # 0 \/ y % 400 = 0) THEN 29 ELSE 28)
    ELSE IF m \in {4, 6, 9, 11} THEN 30 ELSE 31

\* the calendar month of a UTC timestamp in a zone `tz` hours ahead of UTC
LocalMonth(ts, tz) ==
    LET h == ts.hour + tz
        d == IF h < 0 THEN ts.day - 1 ELSE IF h >= 24 THEN ts.day + 1 ELSE ts.day
    IN  IF d < 1
        THEN IF ts.month = 1 THEN [year |-> ts.year - 1, month |-> 12]
             ELSE [year |-> ts.year, month |-> ts.month - 1]
        ELSE IF d > DaysInMonth(ts.year, ts.month)
        THEN IF ts.month = 12 THEN [year |-> ts.year + 1, month |-> 1]
             ELSE [year |-> ts.year, month |-> ts.month + 1]
        ELSE [year |-> ts.year, month |-> ts.month]

\* new Date(ts).toLocaleDateString('en', {year: 'numeric', month: 'short'})
MonthLabel(ts, tz) ==
    LET lm == LocalMonth(ts, tz)
    IN  MonthNames[lm.month] \o " " \o ToString(lm.year)

\* the value a decimal string denotes, in hundredths
Hundredths(str) ==
    CASE str = "0.00" -> 0
      [] str = "0.10" -> 10
      [] str = "0.20" -> 20
      [] str = "0.30" -> 30
      [] str = "19.99" -> 1999
      [] str = "29.99" -> 2999
      [] str = "50.00" -> 5000
      [] str = "100.00" -> 10000
      [] str = "200.00" -> 20000

\* the decimal strings met as amounts and prices
DecimalStrings == {"0.00", "0.10", "0.20", "0.30", "19.99", "29.99", "50.00",
                   "100.00", "200.00"}

\* the number nearest to the value of a decimal string
Nearest(str) == NumOver(NumOfNat(Hundredths(str)), 100)

\* parseFloat of a decimal string: Nearest(str), written out
parseFloat(str) ==
    CASE str = "0.00" ->
            Zero
      [] str = "0.10" ->
            [kind |-> "finite", m |-> << 10066330, 10066329, 25 >>, e |-> 0 - 56]
      [] str = "0.20" ->
            [kind |-> "finite", m |-> << 10066330, 10066329, 25 >>, e |-> 0 - 55]
      [] str = "0.30" ->
            [kind |-> "finite", m |-> << 3355443, 3355443, 19 >>, e |-> 0 - 54]
      [] str = "19.99" ->
            [kind |-> "finite", m |-> << 14092861, 16609443, 19 >>, e |-> 0 - 48]
      [] str = "29.99" ->
            [kind |-> "finite", m |-> << 14092861, 16609443, 29 >>, e |-> 0 - 48]
      [] str = "50.00" ->
            [kind |-> "finite", m |-> << 0, 0, 25 >>, e |-> 0 - 47]
      [] str = "100.00" ->
            [kind |-> "finite", m |-> << 0, 0, 25 >>, e |-> 0 - 46]
      [] str = "200.00" ->
            [kind |-> "finite", m |-> << 0, 0, 25 >>, e |-> 0 - 45]

\* a Map, as the sequence of its entries in insertion order
MapHas(map, key) == \E i \in 1..Len(map) : map[i].key = key
MapGet(map, key, default) ==
    IF MapHas(map, key)
    THEN map[CHOOSE i \in 1..Len(map) : map[i].key = key].value
    ELSE default
MapSet(map, key, value) ==
    IF MapHas(map, key)
    THEN [i \in 1..Len(map) |->
            IF map[i].key = key THEN [key |-> key, value |-> value] ELSE map[i]]
    ELSE Append(map, [key |-> key, value |-> value])

\* ProductKey with the product's id as the key
ProductKeyById(product) == product.id

\* the key a line item's product is aggregated under
ProductKey(product) == product.title

\* productStats after the line items of one order
RECURSIVE LineItemsInto(_, _, _)
LineItemsInto(productStats, items, k) ==
    IF k > Len(items) THEN productStats
    ELSE
      LET item == items[k]
          key == ProductKey(item.product)
          stats == MapGet(productStats, key,
                          [name |-> key, quantity |-> 0, revenue |-> Zero, orders |-> 0])
          next == [name |-> stats.name,
                   quantity |-> stats.quantity + item.quantity,
                   revenue |-> NumAdd(stats.revenue,
                                      NumTimes(item.quantity, parseFloat(item.price))),
                   orders |-> stats.orders + 1]
      IN  LineItemsInto(IF item.product.present THEN MapSet(productStats, key, next)
                        ELSE productStats, items, k + 1)

\* IsFulfilled that ignores the case of the status
IsFulfilledAnyCase(order) ==
    order.displayFulfillmentStatus \in {"FULFILLED", "fulfilled"}

\* IsPaid that takes a pending payment for a payment
IsPaidOrPending(order) == order.displayFinancialStatus \in {"PAID", "PENDING"}

\* the tests of the two status counters
IsFulfilled(order) == order.displayFulfillmentStatus = "FULFILLED"
IsPaid(order) == order.displayFinancialStatus = "PAID"

\* ProcessOrder that adds the amount to totalRevenue only for an order with
\* a processedAt
ProcessOrderSkipsUndated(acc, order, tz) ==
    LET amount == parseFloat(order.amount)
        month == MonthLabel(order.processedAt, tz)
        monthData == MapGet(acc.monthlyStats, month, [orders |-> 0, revenue |-> Zero])
        location == IF order.shippingAddress.city # "" THEN order.shippingAddress.city
                    ELSE "Unknown"
        locData == MapGet(acc.locationStats, location, [orders |-> 0, revenue |-> Zero])
    IN  [ totalRevenue |-> IF order.processedAt # NoTimestamp
                          THEN NumAdd(acc.totalRevenue, amount)
                          ELSE acc.totalRevenue,
          monthlyStats |->
            IF order.processedAt # NoTimestamp
            THEN MapSet(acc.monthlyStats, month,
                        [orders |-> monthData.orders + 1,
                         revenue |-> NumAdd(monthData.revenue, amount)])
            ELSE acc.monthlyStats,
          fulfilledCount |-> acc.fulfilledCount + (IF IsFulfilled(order) THEN 1 ELSE 0),
          paidCount |-> acc.paidCount + (IF IsPaid(order) THEN 1 ELSE 0),
          customerOrders |->
            IF order.customer # Null
            THEN MapSet(acc.customerOrders, order.customer,
                        MapGet(acc.customerOrders, order.customer, 0) + 1)
            ELSE acc.customerOrders,
          productStats |-> LineItemsInto(acc.productStats, order.lineItems, 1),
          locationStats |->
            IF order.shippingAddress.present
            THEN MapSet(acc.locationStats, location,
                        [orders |-> locData.orders + 1,
                         revenue |-> NumAdd(locData.revenue, amount)])
            ELSE acc.locationStats ]

\* the body of orders.forEach for one order
ProcessOrder(acc, order, tz) ==
    LET amount == parseFloat(order.amount)
        month == MonthLabel(order.processedAt, tz)
        monthData == MapGet(acc.monthlyStats, month, [orders |-> 0, revenue |-> Zero])
        location == IF order.shippingAddress.city # "" THEN order.shippingAddress.city
                    ELSE "Unknown"
        locData == MapGet(acc.locationStats, location, [orders |-> 0, revenue |-> Zero])
    IN  [ totalRevenue |-> NumAdd(acc.totalRevenue, amount),
          monthlyStats |->
            IF order.processedAt # NoTimestamp
            THEN MapSet(acc.monthlyStats, month,
                        [orders |-> monthData.orders + 1,
                         revenue |-> NumAdd(monthData.revenue, amount)])
            ELSE acc.monthlyStats,
          fulfilledCount |-> acc.fulfilledCount + (IF IsFulfilled(order) THEN 1 ELSE 0),
          paidCount |-> acc.paidCount + (IF IsPaid(order) THEN 1 ELSE 0),
          customerOrders |->
            IF order.customer # Null
            THEN MapSet(acc.customerOrders, order.customer,
                        MapGet(acc.customerOrders, order.customer, 0) + 1)
            ELSE acc.customerOrders,
          productStats |-> LineItemsInto(acc.productStats, order.lineItems, 1),
          locationStats |->
            IF order.shippingAddress.present
            THEN MapSet(acc.locationStats, location,
                        [orders |-> locData.orders + 1,
                         revenue |-> NumAdd(locData.revenue, amount)])
            ELSE acc.locationStats ]

\* InitialStats without lines 310-312: no month is entered beforehand
InitialStatsUnfilled ==
    [ totalRevenue |-> Zero,
      monthlyStats |-> << >>,
      fulfilledCount |-> 0,
      paidCount |-> 0,
      customerOrders |-> << >>,
      productStats |-> << >>,
      locationStats |-> << >> ]

\* the maps and running totals before the first order
InitialStats ==
    [ totalRevenue |-> Zero,
      monthlyStats |-> [i \in 1..12 |->
                          [key |-> months2025[i], value |-> [orders |-> 0, revenue |-> Zero]]],
      fulfilledCount |-> 0,
      paidCount |-> 0,
      customerOrders |-> << >>,
      productStats |-> << >>,
      locationStats |-> << >> ]

\* orders.forEach: after[k] is what the callbacks of the first k orders
\* leave of the maps and totals acc; each callback runs to its end before
\* the next one starts
ForEachOrder(acc, orders, tz) ==
    LET after[k \in 0..Len(orders)] ==
            IF k = 0 THEN acc
            ELSE ProcessOrder(after[k - 1], orders[k].node, tz)
    IN  after[Len(orders)]

\* InsertDesc placing x behind the elements it ties with
RECURSIVE InsertDescUnstable(_, _)
InsertDescUnstable(sorted, x) ==
    IF sorted = << >> THEN << x >>
    ELSE IF x.rank > Head(sorted).rank THEN << x >> \o sorted
    ELSE << Head(sorted) >> \o InsertDescUnstable(Tail(sorted), x)

\* Array.prototype.sort with a comparator b.f - a.f: stable, descending;
\* ranks[i] is the compared field of arr[i]. x stands before every element
\* of sorted in the array, so it stays before those the comparator ties it with
RECURSIVE InsertDesc(_, _)
InsertDesc(sorted, x) ==
    IF sorted = << >> THEN << x >>
    ELSE IF x.rank >= Head(sorted).rank THEN << x >> \o sorted
    ELSE << Head(sorted) >> \o InsertDesc(Tail(sorted), x)

RECURSIVE SortRanked(_, _)
SortRanked(ranked, k) ==
    IF k > Len(ranked) THEN << >>
    ELSE InsertDesc(SortRanked(ranked, k + 1), ranked[k])

SortDesc(arr, ranks) ==
    LET sorted == SortRanked([i \in 1..Len(arr) |-> [rank |-> ranks[i], item |-> arr[i]]], 1)
    IN  [i \in 1..Len(arr) |-> sorted[i].item]

\* Slice0 that keeps the whole array
SliceAll(arr, n) == arr

\* Array.prototype.slice(0, n)
Slice0(arr, n) == SubSeq(arr, 1, IF Len(arr) < n THEN Len(arr) ELSE n)

\* Segments with the vip test at four orders
SegmentsVipFromFour(customerOrders) ==
    LET idx == 1..Len(customerOrders)
    IN  [ new |-> Cardinality({i \in idx : customerOrders[i].value = 1}),
          vip |-> Cardinality({i \in idx : customerOrders[i].value # 1
                                           /\ customerOrders[i].value >= 4}),
          returning |-> Cardinality({i \in idx : customerOrders[i].value # 1
                                                 /\ ~(customerOrders[i].value >= 4)}) ]

\* the three customer segment counters
Segments(customerOrders) ==
    LET idx == 1..Len(customerOrders)
    IN  [ new |-> Cardinality({i \in idx : customerOrders[i].value = 1}),
          vip |-> Cardinality({i \in idx : customerOrders[i].value # 1
                                           /\ customerOrders[i].value >= 5}),
          returning |-> Cardinality({i \in idx : customerOrders[i].value # 1
                                                 /\ ~(customerOrders[i].value >= 5)}) ]

\* AverageOrderValue without the test of orders.length
AverageUnguarded(totalRevenue, count) == NumOver(totalRevenue, count)

\* averageOrderValue of the returned summary
AverageOrderValue(totalRevenue, count) ==
    IF count > 0 THEN NumOver(totalRevenue, count) ELSE Zero

\* the summary returned once forEach has left the maps and totals acc, for
\* orders.length = count
Summary(acc, count) ==
    LET monthlyData == [i \in 1..Len(acc.monthlyStats) |->
                          [month |-> acc.monthlyStats[i].key,
                           orders |-> acc.monthlyStats[i].value.orders,
                           revenue |-> acc.monthlyStats[i].value.revenue]]
        productValues == [i \in 1..Len(acc.productStats) |-> acc.productStats[i].value]
        locationEntries == [i \in 1..Len(acc.locationStats) |->
                              [location |-> acc.locationStats[i].key,
                               orders |-> acc.locationStats[i].value.orders,
                               revenue |-> acc.locationStats[i].value.revenue]]
    IN  [ computed |-> TRUE,
          totalOrders |-> count,
          totalRevenue |-> acc.totalRevenue,
          averageOrderValue |-> AverageOrderValue(acc.totalRevenue, count),
          fulfilledOrders |-> acc.fulfilledCount,
          paidOrders |-> acc.paidCount,
          monthlyData |-> monthlyData,
          productData |-> Slice0(SortDesc(productValues,
                           [i \in 1..Len(productValues) |-> productValues[i].quantity]), 10),
          customerSegments |-> Segments(acc.customerOrders),
          locationData |-> Slice0(SortDesc(locationEntries,
                           [i \in 1..Len(locationEntries) |-> locationEntries[i].orders]), 10) ]

\* processAnalyticsData(orders), evaluated on a host whose zone is tz
processAnalyticsData(orders, tz) ==
    Summary(ForEachOrder(InitialStats, orders, tz), Len(orders))

\* the edges of the accumulated order ids
EdgesOfIds(ids) == [i \in 1..Len(ids) |-> [node |-> Node(ids[i])]]

\* responses to the products and to the locations request: a body with
\* data, a rejected call, or an error-shaped body without data
SideResponses == {"data", "reject", "errors"}

\* the host time zones considered
TimeZones == {0}

\* the zones of other hosts: UTC-11 (Pacific/Pago_Pago) and UTC+9 (Asia/Tokyo)
HostZones == {0 - 11, 0, 9}

\* ------------------------------------------------------------------------
\* Order sequences handed to processAnalyticsData on its own
\* ------------------------------------------------------------------------
\* the longest sequence drawn from SampleOrders
MaxOrders == 5
\* the number of distinct cities, and of distinct products, of a city tour
MaxCities == 11

\* four order nodes: one of March 2025; one of December 2024 with a product
\* of another id and the same title, a null product and an address without
\* city; one of November 2025 without customer and without address; one
\* without processedAt, with a status in lower case and without line items
SampleOrders ==
    << [ id |-> 101,
         processedAt |-> [year |-> 2025, month |-> 3, day |-> 1, hour |-> 10],
         createdAt |-> [year |-> 2025, month |-> 3, day |-> 1, hour |-> 10],
         amount |-> "0.10",
         displayFulfillmentStatus |-> "FULFILLED",
         displayFinancialStatus |-> "PAID",
         customer |-> "c1",
         lineItems |-> << [product |-> Product("p1", "Widget"),
                           quantity |-> 2, price |-> "19.99"] >>,
         shippingAddress |-> [present |-> TRUE, city |-> "Springfield"] ],
       [ id |-> 102,
         processedAt |-> [year |-> 2024, month |-> 12, day |-> 30, hour |-> 8],
         createdAt |-> [year |-> 2024, month |-> 12, day |-> 30, hour |-> 8],
         amount |-> "0.20",
         displayFulfillmentStatus |-> "PARTIALLY_FULFILLED",
         displayFinancialStatus |-> "PENDING",
         customer |-> "c1",
         lineItems |-> << [product |-> Product("p2", "Widget"),
                           quantity |-> 1, price |-> "0.10"],
                          [product |-> NoProduct, quantity |-> 3, price |-> "0.20"] >>,
         shippingAddress |-> [present |-> TRUE, city |-> ""] ],
       [ id |-> 103,
         processedAt |-> [year |-> 2025, month |-> 11, day |-> 15, hour |-> 12],
         createdAt |-> [year |-> 2025, month |-> 11, day |-> 15, hour |-> 12],
         amount |-> "0.30",
         displayFulfillmentStatus |-> "FULFILLED",
         displayFinancialStatus |-> "REFUNDED",
         customer |-> Null,
         lineItems |-> << [product |-> Product("p3", "Gadget"),
                           quantity |-> 2, price |-> "29.99"] >>,
         shippingAddress |-> NoAddress ],
       [ id |-> 104,
         processedAt |-> NoTimestamp,
         createdAt |-> [year |-> 2025, month |-> 6, day |-> 10, hour |-> 9],
         amount |-> "19.99",
         displayFulfillmentStatus |-> "fulfilled",
         displayFinancialStatus |-> "PAID",
         customer |-> "c2",
         lineItems |-> << >>,
         shippingAddress |-> [present |-> TRUE, city |-> "Shelbyville"] ] >>

\* order i of a city tour over n cities: city and product i mod n; the
\* cities 1 and 2 are visited again at the end of a tour
TourOrder(i, n) ==
    [ id |-> 200 + i,
      processedAt |-> [year |-> 2025, month |-> 1 + (i % 12), day |-> 5, hour |-> 9],
      createdAt |-> [year |-> 2025, month |-> 1 + (i % 12), day |-> 5, hour |-> 9],
      amount |-> "50.00",
      displayFulfillmentStatus |-> "FULFILLED",
      displayFinancialStatus |-> "PAID",
      customer |-> "c3",
      lineItems |-> << [product |-> Product("t" \o ToString(i % n), "Item " \o ToString(i % n)),
                        quantity |-> IF i % n = 2 THEN 3 ELSE 1, price |-> "50.00"] >>,
      shippingAddress |-> [present |-> TRUE, city |-> "City " \o ToString(i % n)] ]

\* a tour of n cities that starts at city `first` and, after all n cities,
\* visits again the first two of them
CityTour(first, n) == [i \in 1..(n + 2) |-> [node |-> TourOrder(first + i - 1, n)]]

\* the orders A, B and C of the end-to-end scenario
ScenarioOrder(id, day, amount, fulfillment, financial, customer, title, quantity, city) ==
    [ id |-> id,
      processedAt |-> [year |-> 2025, month |-> day[1], day |-> day[2], hour |-> 12],
      createdAt |-> [year |-> 2025, month |-> day[1], day |-> day[2], hour |-> 12],
      amount |-> amount,
      displayFulfillmentStatus |-> fulfillment,
      displayFinancialStatus |-> financial,
      customer |-> customer,
      lineItems |-> << [product |-> Product(title, title),
                        quantity |-> quantity, price |-> "50.00"] >>,
      shippingAddress |-> [present |-> TRUE, city |-> city] ]

ScenarioOrders ==
    << [node |-> ScenarioOrder(301, << 3, 1 >>, "100.00", "FULFILLED", "PAID",
                               "c1", "Widget", 2, "Springfield")],
       [node |-> ScenarioOrder(302, << 3, 15 >>, "50.00", "UNFULFILLED", "PENDING",
                               "c1", "Widget", 1, "Springfield")],
       [node |-> ScenarioOrder(303, << 4, 2 >>, "200.00", "FULFILLED", "PAID",
                               "c2", "Gadget", 4, "Shelbyville")] >>

\* the data-shape anomalies of an order
Anomalies == {"processedAt", "customer", "shippingAddress", "status"}

\* an order with the anomalies of the set lacking
AnomalyOrder(lacking) ==
    [ id |-> 400 + Cardinality(lacking),
      processedAt |-> IF "processedAt" \in lacking THEN NoTimestamp
                      ELSE [year |-> 2025, month |-> 7, day |-> 4, hour |-> 12],
      createdAt |-> NoTimestamp,
      amount |-> "29.99",
      displayFulfillmentStatus |-> IF "status" \in lacking THEN "ON_HOLD_PENDING"
                                   ELSE "FULFILLED",
      displayFinancialStatus |-> IF "status" \in lacking THEN "" ELSE "PAID",
      customer |-> IF "customer" \in lacking THEN Null ELSE "c4",
      lineItems |-> << [product |-> Product("p4", "Gizmo"),
                        quantity |-> 1, price |-> "29.99"] >>,
      shippingAddress |-> IF "shippingAddress" \in lacking THEN NoAddress
                          ELSE [present |-> TRUE, city |-> "Ogdenville"] ]

\* an order of every combination of anomalies alone, and an order with all
\* of them between two orders with none
AnomalyInputs ==
    {<< [node |-> AnomalyOrder(lacking)] >> : lacking \in SUBSET Anomalies}
    \cup {<< [node |-> AnomalyOrder({})], [node |-> AnomalyOrder(Anomalies)],
             [node |-> AnomalyOrder({})] >>}

RECURSIVE SeqsUpTo(_, _)
SeqsUpTo(S, n) ==
    IF n = 0 THEN {<< >>}
    ELSE LET shorter == SeqsUpTo(S, n - 1)
         IN  shorter \cup {Append(q, x) : q \in shorter, x \in S}

\* the inputs: every sequence of at most MaxOrders sample orders, the city
\* tours of MaxCities - 1 and of MaxCities cities, the scenario, and the
\* orders with anomalies
Inputs ==
    {[i \in 1..Len(q) |-> [node |-> SampleOrders[q[i]]]] :
        q \in SeqsUpTo(1..Len(SampleOrders), MaxOrders)}
    \cup {CityTour(first, n) : first \in 1..3, n \in {MaxCities - 1, MaxCities}}
    \cup {ScenarioOrders}
    \cup AnomalyInputs

\* orders with the entries at positions i and i + 1 exchanged
SwapAdjacent(orders, i) ==
    [k \in 1..Len(orders) |->
        IF k = i THEN orders[i + 1] ELSE IF k = i + 1 THEN orders[i] ELSE orders[k]]

\* ------------------------------------------------------------------------
\* State of one loader invocation
\* ------------------------------------------------------------------------
VARIABLES
    pc,             \* position in loader
    allOrders,      \* accumulated edges (order ids)
    hasNextPage,
    cursor,
    pageCount,
    retryCount,     \* retryCount and success live in the outer loop's body
    success,
    productsData,   \* [hasData, edges]
    locationsData,  \* [hasData, edges]
    analytics,      \* result of processAnalyticsData, once computed
    outcome,        \* "running", "returned" or "threw"
    signals,        \* truncation and completion messages logged so far
    requests,       \* number of orders requests issued
    lastRequest,    \* the latest orders request: its `after`, the delays awaited before it
    pending,        \* delays awaited since the latest orders request
    backoffs,       \* backoff waits of the page being fetched
    attempts,       \* requests issued for the page being fetched
    received,       \* edge lists of the successful responses, in order
    lastEndCursor,  \* pageInfo.endCursor of the latest successful response
    lastFailure,    \* message caught for the latest orders request, "" if none
    gaveUp,         \* a page failed with no retry left
    anomalies,      \* successful responses so far that were not well-formed
    upstreamSize,   \* pages in the upstream collection
    tz,             \* the host's time zone, in hours ahead of UTC
    argOrders,      \* the argument of a call of processAnalyticsData on its own
    summary,        \* what that call returns
    reordered,      \* the same orders with two neighbours exchanged
    summaryReordered,  \* what processAnalyticsData returns for them
    hostElsewhere,     \* the time zone of another host
    summaryElsewhere,  \* what processAnalyticsData returns for argOrders there
    currentPage,       \* the state of the Orders component
    queryValue,
    paymentStatus,     \* [defined, values]
    fulfillmentStatus, \* [defined, values]
    orderTotal,        \* [defined, range]
    customerName,
    sortSelected,
    itemStrings,       \* the names of the views
    selected,          \* the index of the selected view
    inFlight,          \* view callbacks that sleep
    started            \* number of view callbacks started

vars == << pc, allOrders, hasNextPage, cursor, pageCount, retryCount, success,
           productsData, locationsData, analytics, outcome, signals, requests,
           lastRequest, pending, backoffs, attempts, received, lastEndCursor,
           lastFailure, gaveUp, anomalies, upstreamSize, tz,
           argOrders, summary, reordered, summaryReordered,
           hostElsewhere, summaryElsewhere,
           currentPage, queryValue, paymentStatus, fulfillmentStatus, orderTotal,
           customerName, sortSelected, itemStrings, selected, inFlight, started >>

filterVars == << queryValue, paymentStatus, fulfillmentStatus, orderTotal,
                customerName, sortSelected >>
pagingVars == << currentPage, filterVars >>
viewVars == << itemStrings, selected, inFlight, started >>
ordersVars == << pagingVars, viewVars >>
callVars == << argOrders, summary, reordered, summaryReordered,
              hostElsewhere, summaryElsewhere >>
envVars == << upstreamSize, tz, callVars, ordersVars >>
loaderVars == << pc, allOrders, hasNextPage, cursor, pageCount, retryCount, success,
                 productsData, locationsData, analytics, outcome, signals, requests,
                 lastRequest, pending, backoffs, attempts, received, lastEndCursor,
                 lastFailure, gaveUp, anomalies, upstreamSize, tz >>
fetchVars == << allOrders, hasNextPage, cursor, pageCount, received, lastEndCursor,
                anomalies >>
pageVars == << retryCount, success, backoffs, attempts, lastFailure >>
tailVars == << productsData, locationsData, analytics, outcome >>

NoAnalytics == [computed |-> FALSE]

\* ------------------------------------------------------------------------
\* The Orders list (app.orders.tsx)
\* ------------------------------------------------------------------------
\* strings that are searched are sequences of characters
UpperCase == << "A", "B", "C", "D", "E", "F", "G", "H", "I", "J", "K", "L", "M",
                "N", "O", "P", "Q", "R", "S", "T", "U", "V", "W", "X", "Y", "Z" >>
LowerCase == << "a", "b", "c", "d", "e", "f", "g", "h", "i", "j", "k", "l", "m",
                "n", "o", "p", "q", "r", "s", "t", "u", "v", "w", "x", "y", "z" >>
DigitChars == << "0", "1", "2", "3", "4", "5", "6", "7", "8", "9" >>

\* String.prototype.toLowerCase
toLowerCase(s) ==
    [k \in 1..Len(s) |->
        IF \E c \in 1..26 : UpperCase[c] = s[k]
        THEN LowerCase[CHOOSE c \in 1..26 : UpperCase[c] = s[k]]
        ELSE s[k]]

\* String.prototype.includes
includes(s, part) ==
    \E at \in 0..(Len(s) - Len(part)) : SubSeq(s, at + 1, at + Len(part)) = part

\* the decimal digits of a natural number
RECURSIVE DigitsOf(_)
DigitsOf(n) ==
    IF n < 10 THEN << DigitChars[n + 1] >>
    ELSE DigitsOf(n \div 10) \o << DigitChars[(n % 10) + 1] >>

\* the value of a sequence of digits
RECURSIVE ValueOf(_)
ValueOf(digits) ==
    IF digits = << >> THEN 0
    ELSE 10 * ValueOf(SubSeq(digits, 1, Len(digits) - 1))
         + ((CHOOSE d \in 1..10 : DigitChars[d] = digits[Len(digits)]) - 1)

\* const itemsPerPage = 10
itemsPerPage == 10

\* the number of orders the loader of the page returned
ListedOrders == 21

\* the order without a totalPriceSet
OrderWithoutTotal == 20

\* the nodes of ordersData, newest first: order i is #1000+i of i * 10.00 USD
OrderNodes ==
    [i \in 1..ListedOrders |->
        [ id |-> 5000 + i,
          name |-> << "#" >> \o DigitsOf(1000 + i),
          createdAt |-> 100 * (ListedOrders + 1 - i),  \* minutes, all of one year
          hasTotal |-> i # OrderWithoutTotal,
          amount |-> DigitsOf(10 * i) \o << ".", "0", "0" >>,
          currencyCode |-> << "U", "S", "D" >>,
          displayFinancialStatus |->
              IF i % 2 = 0 THEN << "P", "A", "I", "D" >>
              ELSE << "P", "E", "N", "D", "I", "N", "G" >>,
          displayFulfillmentStatus |->
              IF i % 3 = 0 THEN << "F", "U", "L", "F", "I", "L", "L", "E", "D" >>
              ELSE << "U", "N", "F", "U", "L", "F", "I", "L", "L", "E", "D" >> ]]

\* String.prototype.replace('_', ' '): the first underscore only
ReplaceUnderscore(s) ==
    IF \E k \in 1..Len(s) : s[k] = "_"
    THEN LET first == CHOOSE k \in 1..Len(s) :
                          s[k] = "_" /\ \A j \in 1..(k - 1) : s[j] # "_"
         IN  [s EXCEPT ![first] = " "]
    ELSE s

\* the text of the payment badge
PaymentText(status) ==
    IF status = << "P", "A", "I", "D" >> THEN << "P", "a", "i", "d" >>
    ELSE IF status = << "P", "A", "R", "T", "I", "A", "L", "L", "Y", "_", "P", "A", "I", "D" >>
    THEN << "P", "a", "r", "t", "i", "a", "l", "l", "y", " ", "P", "a", "i", "d" >>
    ELSE IF status # << >> THEN ReplaceUnderscore(status)
    ELSE << "U", "n", "k", "n", "o", "w", "n" >>

\* the text of the fulfillment badge
FulfillmentText(status) ==
    IF ReplaceUnderscore(status) # << >> THEN ReplaceUnderscore(status)
    ELSE << "U", "n", "k", "n", "o", "w", "n" >>

\* ordersData.data.orders.nodes.map(...): the row of an order
OrderRow(order) ==
    [ id |-> order.id,
      orderNumber |-> order.id,
      order |-> order.name,
      date |-> order.createdAt,
      customer |-> << "G", "u", "e", "s", "t" >>,
      total |-> IF order.hasTotal
                THEN order.currencyCode \o << " " >> \o order.amount
                ELSE << "N", "/", "A" >>,
      paymentStatus |-> PaymentText(order.displayFinancialStatus),
      fulfillmentStatus |-> FulfillmentText(order.displayFulfillmentStatus) ]

\* const orders
orderRows == [i \in 1..ListedOrders |-> OrderRow(OrderNodes[i])]

\* parseFloat(total.replace(/[^0-9.-]+/g, '')) in hundredths; the amounts
\* have no sign and at most two decimals
IsAmountChar(c) == c \in {"-", "."} \/ \E d \in 1..10 : DigitChars[d] = c
TotalAmount(total) ==
    LET kept == SelectSeq(total, IsAmountChar)
        dot == IF \E k \in 1..Len(kept) : kept[k] = "."
               THEN CHOOSE k \in 1..Len(kept) :
                        kept[k] = "." /\ \A j \in 1..(k - 1) : kept[j] # "."
               ELSE Len(kept) + 1
        whole == SubSeq(kept, 1, dot - 1)
        cents == SubSeq(kept, dot + 1, Len(kept))
    IN  IF kept = << >> THEN [isNaN |-> TRUE, hundredths |-> 0]
        ELSE [isNaN |-> FALSE,
              hundredths |-> 100 * ValueOf(whole)
                             + (IF Len(cents) = 1 THEN 10 ELSE 1) * ValueOf(cents)]

\* sortSelected[0].split(' ')
SortField(sortValue) ==
    CASE sortValue \in {"order asc", "order desc"} -> "order"
      [] sortValue \in {"customer asc", "customer desc"} -> "customer"
      [] sortValue \in {"date asc", "date desc"} -> "date"
      [] sortValue \in {"total asc", "total desc"} -> "total"
SortDir(sortValue) ==
    IF sortValue \in {"order asc", "customer asc", "date asc", "total asc"}
    THEN "asc" ELSE "desc"

\* the comparator of filtered.sort: negative, zero or positive; every row has
\* the customer 'Guest', and a NaN total compares neither smaller nor larger
CompareRows(a, b, sortValue) ==
    LET field == SortField(sortValue)
        less == CASE field = "order" -> a.orderNumber < b.orderNumber
                  [] field = "date" -> a.date < b.date
                  [] field = "customer" -> FALSE
                  [] field = "total" ->
                        /\ ~TotalAmount(a.total).isNaN
                        /\ ~TotalAmount(b.total).isNaN
                        /\ TotalAmount(a.total).hundredths < TotalAmount(b.total).hundredths
        more == CASE field = "order" -> a.orderNumber > b.orderNumber
                  [] field = "date" -> a.date > b.date
                  [] field = "customer" -> FALSE
                  [] field = "total" ->
                        /\ ~TotalAmount(a.total).isNaN
                        /\ ~TotalAmount(b.total).isNaN
                        /\ TotalAmount(a.total).hundredths > TotalAmount(b.total).hundredths
    IN  IF SortDir(sortValue) = "asc"
        THEN (IF less THEN 0 - 1 ELSE IF more THEN 1 ELSE 0)
        ELSE (IF more THEN 0 - 1 ELSE IF less THEN 1 ELSE 0)

\* Array.prototype.sort with the comparator: a stable insertion
RECURSIVE InsertRow(_, _, _)
InsertRow(sorted, row, sortValue) ==
    IF sorted = << >> THEN << row >>
    ELSE IF CompareRows(row, sorted[Len(sorted)], sortValue) >= 0
    THEN Append(sorted, row)
    ELSE Append(InsertRow(SubSeq(sorted, 1, Len(sorted) - 1), row, sortValue),
                sorted[Len(sorted)])

RECURSIVE SortRows(_, _)
SortRows(rows, sortValue) ==
    IF rows = << >> THEN << >>
    ELSE InsertRow(SortRows(SubSeq(rows, 1, Len(rows) - 1), sortValue),
                   rows[Len(rows)], sortValue)

\* the values of the filters
NoText == << >>
QueryValues ==
    { NoText,
      << "#", "1", "0", "0" >>,
      << "U", "S", "D", " ", "2" >>,
      << "G", "U", "E" >> }
NoChoice == [defined |-> FALSE, values |-> << >>]
Chosen(values) == [defined |-> TRUE, values |-> values]
PaymentValues ==
    { NoChoice, Chosen(<< >>), Chosen(<< << "p", "a", "i", "d" >> >>),
      Chosen(<< << "u", "n", "p", "a", "i", "d" >> >>),
      Chosen(<< << "p", "a", "i", "d" >>, << "p", "e", "n", "d", "i", "n", "g" >> >>) }
FulfillmentValues ==
    { NoChoice, Chosen(<< << "f", "u", "l", "f", "i", "l", "l", "e", "d" >> >>),
      Chosen(<< << "u", "n", "f", "u", "l", "f", "i", "l", "l", "e", "d" >> >>) }
NoRange == [defined |-> FALSE, range |-> << 0, 0 >>]
Between(low, high) == [defined |-> TRUE, range |-> << low, high >>]
TotalRanges == { NoRange, Between(0, 1000), Between(0, 50), Between(205, 2000) }
CustomerNames == { NoText, << "g", "u" >>, << "b", "o", "b" >> }
SortValues == { "date desc", "order asc", "total desc" }

\* the filters of filteredAndSortedOrders, one after the other
MatchesQuery(row, query) ==
    query = NoText
    \/ includes(toLowerCase(row.order), toLowerCase(query))
    \/ includes(toLowerCase(row.customer), toLowerCase(query))
    \/ includes(toLowerCase(row.total), toLowerCase(query))

MatchesStatus(text, chosen) ==
    \/ ~chosen.defined
    \/ Len(chosen.values) = 0
    \/ \E k \in 1..Len(chosen.values) :
          includes(toLowerCase(text), toLowerCase(chosen.values[k]))

MatchesTotal(row, range) ==
    \/ ~range.defined
    \/ /\ ~TotalAmount(row.total).isNaN
       /\ TotalAmount(row.total).hundredths >= 100 * range.range[1]
       /\ TotalAmount(row.total).hundredths <= 100 * range.range[2]

MatchesCustomer(row, name) ==
    name = NoText \/ includes(toLowerCase(row.customer), toLowerCase(name))

\* filteredAndSortedOrders
FilteredAndSortedOrders(query, payment, fulfillment, range, name, sortValue) ==
    LET Kept(row) ==
            /\ MatchesQuery(row, query)
            /\ MatchesStatus(row.paymentStatus, payment)
            /\ MatchesStatus(row.fulfillmentStatus, fulfillment)
            /\ MatchesTotal(row, range)
            /\ MatchesCustomer(row, name)
    IN  SortRows(SelectSeq(orderRows, Kept), sortValue)

\* Math.ceil(length / itemsPerPage)
TotalPages(length) == (length + itemsPerPage - 1) \div itemsPerPage

\* filteredAndSortedOrders.slice(startIndex, endIndex)
PaginatedOrders(rows, page) ==
    LET startIndex == (page - 1) * itemsPerPage
        endIndex == startIndex + itemsPerPage
        last == IF endIndex < Len(rows) THEN endIndex ELSE Len(rows)
    IN  IF startIndex >= Len(rows) THEN << >>
        ELSE SubSeq(rows, startIndex + 1, last)

\* the views of the list when the component is mounted
InitialViews == << "All", "Unpaid", "Open", "Closed", "Fulfilled", "Unfulfilled" >>

\* the callbacks of the views that may be started
MaxCallbacks == 2

\* the state of the Orders component when it is mounted
OrdersMounted ==
    /\ currentPage = 1
    /\ queryValue = NoText
    /\ paymentStatus = NoChoice
    /\ fulfillmentStatus = NoChoice
    /\ orderTotal = NoRange
    /\ customerName = NoText
    /\ sortSelected = << "date desc" >>
    /\ itemStrings = InitialViews
    /\ selected = 0
    /\ inFlight = {}
    /\ started = 0

\* the loader's variables when it is entered
LoaderEntered ==
    /\ pc = "outer"
    /\ allOrders = << >>
    /\ hasNextPage = TRUE
    /\ cursor = Null
    /\ pageCount = 0
    /\ retryCount = 0
    /\ success = FALSE
    /\ productsData = [hasData |-> TRUE, edges |-> << >>]
    /\ locationsData = [hasData |-> TRUE, edges |-> << >>]
    /\ analytics = NoAnalytics
    /\ outcome = "running"
    /\ signals = {}
    /\ requests = 0
    /\ lastRequest = [after |-> Undefined, delays |-> << >>]
    /\ pending = << >>
    /\ backoffs = << >>
    /\ attempts = 0
    /\ received = << >>
    /\ lastEndCursor = Undefined
    /\ lastFailure = ""
    /\ gaveUp = FALSE
    /\ anomalies = 0

\* no call of processAnalyticsData on its own
NoCall ==
    /\ argOrders = << >>
    /\ summary = NoAnalytics
    /\ reordered = << >>
    /\ summaryReordered = NoAnalytics
    /\ hostElsewhere = 0
    /\ summaryElsewhere = NoAnalytics

Init ==
    /\ LoaderEntered
    /\ upstreamSize \in UpstreamSizes
    /\ tz \in TimeZones
    /\ NoCall
    /\ OrdersMounted

\* ------------------------------------------------------------------------
\* The fetch loop
\* ------------------------------------------------------------------------
\* the outer loop is left: its body's variables go out of scope
LeaveLoop ==
    /\ retryCount' = 0
    /\ success' = FALSE
    /\ backoffs' = << >>
    /\ attempts' = 0
    /\ lastFailure' = ""
    /\ pending' = << >>
    /\ pc' = "final"

\* OuterLoop with retryCount declared outside the loop: it is not reset
OuterLoopKeepsRetryCount ==
    /\ pc = "outer"
    /\ IF hasNextPage /\ pageCount < MAX_PAGES
       THEN /\ success' = FALSE
            /\ backoffs' = << >>
            /\ attempts' = 0
            /\ lastFailure' = ""
            /\ pc' = "inner"
            /\ UNCHANGED << retryCount, pending >>
       ELSE LeaveLoop
    /\ UNCHANGED << fetchVars, tailVars, envVars, signals, requests, lastRequest, gaveUp >>

\* OuterLoop with the page cap compared by <=
OuterLoopOffByOne ==
    /\ pc = "outer"
    /\ IF hasNextPage /\ pageCount <= MAX_PAGES
       THEN /\ retryCount' = 0
            /\ success' = FALSE
            /\ backoffs' = << >>
            /\ attempts' = 0
            /\ lastFailure' = ""
            /\ pc' = "inner"
            /\ UNCHANGED pending
       ELSE LeaveLoop
    /\ UNCHANGED << fetchVars, tailVars, envVars, signals, requests, lastRequest, gaveUp >>

\* OuterLoop without the page cap
OuterLoopUncapped ==
    /\ pc = "outer"
    /\ IF hasNextPage
       THEN /\ retryCount' = 0
            /\ success' = FALSE
            /\ backoffs' = << >>
            /\ attempts' = 0
            /\ lastFailure' = ""
            /\ pc' = "inner"
            /\ UNCHANGED pending
       ELSE LeaveLoop
    /\ UNCHANGED << fetchVars, tailVars, envVars, signals, requests, lastRequest, gaveUp >>

\* while (hasNextPage && pageCount < MAX_PAGES) { retryCount = 0; success = false
OuterLoop ==
    /\ pc = "outer"
    /\ IF hasNextPage /\ pageCount < MAX_PAGES
       THEN /\ retryCount' = 0
            /\ success' = FALSE
            /\ backoffs' = << >>
            /\ attempts' = 0
            /\ lastFailure' = ""
            /\ pc' = "inner"
            /\ UNCHANGED pending
       ELSE LeaveLoop
    /\ UNCHANGED << fetchVars, tailVars, envVars, signals, requests, lastRequest, gaveUp >>

\* the `after` variable of the request built from the cursor
AfterOf(c) == IF Truthy(c) THEN c ELSE Undefined

\* the delay awaited right before the request is sent
PacingBefore(count) == IF count > 0 THEN << PacingDelay >> ELSE << >>

\* while (!success && retryCount <= maxRetries): build the variables, pace,
\* send the request
SendOrdersRequest ==
    /\ pc = "inner"
    /\ ~success /\ retryCount <= maxRetries
    /\ lastRequest' = [after |-> AfterOf(cursor),
                       delays |-> pending \o PacingBefore(pageCount)]
    /\ pending' = << >>
    /\ requests' = requests + 1
    /\ attempts' = attempts + 1
    /\ pc' = "await"
    /\ UNCHANGED << fetchVars, tailVars, envVars, retryCount, success, signals,
                    backoffs, lastFailure, gaveUp >>

\* the inner loop's condition fails: on to the statement after it
InnerExit ==
    /\ pc = "inner"
    /\ ~(~success /\ retryCount <= maxRetries)
    /\ pc' = "afterInner"
    /\ UNCHANGED << fetchVars, tailVars, envVars, pageVars, signals, requests,
                    lastRequest, pending, gaveUp >>

\* AfterInner that throws instead of breaking
AfterInnerThrows ==
    /\ pc = "afterInner"
    /\ IF ~success
       THEN /\ outcome' = "threw"
            /\ pc' = "done"
            /\ UNCHANGED << signals, pageVars, pending >>
       ELSE /\ pc' = "outer"
            /\ UNCHANGED << signals, pageVars, pending, outcome >>
    /\ UNCHANGED << fetchVars, productsData, locationsData, analytics, envVars,
                    requests, lastRequest, gaveUp >>

\* if (!success) { log; break }, else the outer loop test again
AfterInner ==
    /\ pc = "afterInner"
    /\ IF ~success
       THEN /\ signals' = signals \cup {"Stopping"}
            /\ LeaveLoop
       ELSE /\ pc' = "outer"
            /\ UNCHANGED << signals, pageVars, pending >>
    /\ UNCHANGED << fetchVars, tailVars, envVars, requests, lastRequest, gaveUp >>

\* the edge list the upstream serves for page p
ServedPage(p, size) == IF p <= size THEN Page(p) ELSE << >>

\* edges || []
EdgesOf(resp, page) == IF resp.hasEdges THEN page ELSE << >>

\* concat whose result is dropped
AccumulateDropped(orders, edges) == orders

\* allOrders.concat(edges)
Accumulate(orders, edges) == orders \o edges

\* pageInfo?.hasNextPage || false
NextPageOf(resp) == resp.hasPageInfo /\ resp.hasNextPage

\* pageInfo?.endCursor, for the page served
EndCursorIn(resp, p) ==
    IF ~resp.hasPageInfo THEN Undefined
    ELSE IF resp.endCursor = "own" THEN EndCursorOf(p) ELSE resp.endCursor

\* a response that is not well-formed is within the runs considered: at
\* most MaxAnomalies of them, and none after a failed request
OddAllowed == anomalies < MaxAnomalies /\ requests = pageCount + 1

\* a response that passes both checks: accumulate the page, take over
\* pageInfo, count the page
PageFetched ==
    /\ pc = "await"
    /\ \E resp \in PageResponses :
        LET p == PageIndex(lastRequest.after)
            odd == IF resp = WellFormed(p, upstreamSize) THEN 0 ELSE 1
            edges == EdgesOf(resp, ServedPage(p, upstreamSize))
        IN  /\ ThrownMessage(resp) = ""
            /\ odd = 1 => OddAllowed
            /\ allOrders' = Accumulate(allOrders, edges)
            /\ received' = Append(received, edges)
            /\ hasNextPage' = NextPageOf(resp)
            /\ cursor' = OrNull(EndCursorIn(resp, p))
            /\ lastEndCursor' = EndCursorIn(resp, p)
            /\ anomalies' = anomalies + odd
    /\ pageCount' = pageCount + 1
    /\ success' = TRUE
    /\ lastFailure' = ""
    /\ pc' = "inner"
    /\ UNCHANGED << tailVars, envVars, retryCount, signals, requests, lastRequest,
                    pending, backoffs, attempts, gaveUp >>

\* CatchBranch that gives up at once on an error that is not transient
CatchBranchTransientOnly(msg, retries) ==
    IF (Includes(msg, "Throttled") \/ Includes(msg, "fetch failed")) /\ retries < maxRetries
    THEN "transient"
    ELSE "giveup"

\* the branch of the catch block taken for an error message
CatchBranch(msg, retries) ==
    IF (Includes(msg, "Throttled") \/ Includes(msg, "fetch failed")) /\ retries < maxRetries
    THEN "transient"
    ELSE IF retries < maxRetries THEN "other" ELSE "giveup"

\* WaitTime without the retry number as a factor
WaitTimeFlat(branch, retries) ==
    IF branch = "transient" THEN ThrottleBase ELSE OtherBase

\* waitTime of the two retrying branches
WaitTime(branch, retries) ==
    IF branch = "transient" THEN ThrottleBase * retries ELSE OtherBase * retries

\* a failing response is within the runs considered: at most MaxFailures
\* failures, and none after a response that was not well-formed
FailureAllowed == anomalies = 0 /\ requests - pageCount <= MaxFailures

\* retryCount++; await delay(waitTime)
Retry(branch, msg) ==
    /\ retryCount' = retryCount + 1
    /\ backoffs' = Append(backoffs, WaitTime(branch, retryCount'))
    /\ pending' = Append(pending, WaitTime(branch, retryCount'))
    /\ lastFailure' = msg
    /\ pc' = "inner"
    /\ UNCHANGED << fetchVars, tailVars, envVars, success, signals, requests,
                    lastRequest, attempts, gaveUp >>

\* catch, first branch: throttled or network failure with retries left
RetryTransient ==
    /\ pc = "await"
    /\ FailureAllowed
    /\ \E resp \in FailureResponses :
        /\ CatchBranch(ThrownMessage(resp), retryCount) = "transient"
        /\ Retry("transient", ThrownMessage(resp))

\* catch, second branch: any other error with retries left
RetryOther ==
    /\ pc = "await"
    /\ FailureAllowed
    /\ \E resp \in FailureResponses :
        /\ CatchBranch(ThrownMessage(resp), retryCount) = "other"
        /\ Retry("other", ThrownMessage(resp))

\* catch, last branch: retries used up; break out of the inner loop
GiveUp ==
    /\ pc = "await"
    /\ FailureAllowed
    /\ \E resp \in FailureResponses :
        /\ CatchBranch(ThrownMessage(resp), retryCount) = "giveup"
        /\ lastFailure' = ThrownMessage(resp)
    /\ gaveUp' = TRUE
    /\ pc' = "afterInner"
    /\ UNCHANGED << fetchVars, tailVars, envVars, retryCount, success, backoffs,
                    attempts, signals, requests, lastRequest, pending >>

\* FinalSignal decided by the has-more flag instead of the page count
FinalSignalByFlag(count) == IF hasNextPage THEN "MaxLimit" ELSE "Finished"

\* FinalSignal with the page-cap message only past the cap
FinalSignalPastCap(count) == IF count > MAX_PAGES THEN "MaxLimit" ELSE "Finished"

\* the message written after the loop
FinalSignal(count) == IF count >= MAX_PAGES THEN "MaxLimit" ELSE "Finished"

\* the message after the loop, then the delay before the products request
FinalLog ==
    /\ pc = "final"
    /\ signals' = signals \cup {FinalSignal(pageCount)}
    /\ pc' = "products"
    /\ UNCHANGED << fetchVars, tailVars, envVars, pageVars, requests, lastRequest,
                    pending, gaveUp >>

\* what a side request leaves in its data variable
SideData(r, default, edges) ==
    CASE r = "data" -> [hasData |-> TRUE, edges |-> edges]
      [] r = "errors" -> [hasData |-> FALSE, edges |-> << >>]
      [] OTHER -> default

\* the products request: a rejected call leaves the empty default in place
FetchProducts ==
    /\ pc = "products"
    /\ \E r \in SideResponses :
        productsData' = SideData(r, productsData, << "product-1" >>)
    /\ pc' = "locations"
    /\ UNCHANGED << fetchVars, envVars, pageVars, locationsData, analytics, outcome,
                    signals, requests, lastRequest, pending, gaveUp >>

\* the locations request, likewise, after its delay
FetchLocations ==
    /\ pc = "locations"
    /\ \E r \in SideResponses :
        locationsData' = SideData(r, locationsData, << "location-1" >>)
    /\ pc' = "aggregate"
    /\ UNCHANGED << fetchVars, envVars, pageVars, productsData, analytics, outcome,
                    signals, requests, lastRequest, pending, gaveUp >>

\* whether building the returned object dereferences a missing data member
ReturnThrows(products, locations) == ~products.hasData \/ ~locations.hasData

\* processAnalyticsData(allOrders), then the json(...) result
Aggregate ==
    /\ pc = "aggregate"
    /\ analytics' = processAnalyticsData(EdgesOfIds(allOrders), tz)
    /\ outcome' = IF ReturnThrows(productsData, locationsData) THEN "threw" ELSE "returned"
    /\ pc' = "done"
    /\ UNCHANGED << fetchVars, envVars, pageVars, productsData, locationsData,
                    signals, requests, lastRequest, pending, gaveUp >>

Next ==
    \/ OuterLoop
    \/ SendOrdersRequest
    \/ InnerExit
    \/ AfterInner
    \/ PageFetched
    \/ RetryTransient
    \/ RetryOther
    \/ GiveUp
    \/ FinalLog
    \/ FetchProducts
    \/ FetchLocations
    \/ Aggregate

Spec == Init /\ [][Next]_vars

\* the statements before the call of processAnalyticsData
BeforeAggregate ==
    \/ OuterLoop
    \/ SendOrdersRequest
    \/ InnerExit
    \/ AfterInner
    \/ PageFetched
    \/ RetryTransient
    \/ RetryOther
    \/ GiveUp
    \/ FinalLog
    \/ FetchProducts
    \/ FetchLocations

\* the loader up to its call of processAnalyticsData.  The loader is one
\* async function: every await of it resolves (a delay elapses, a request is
\* answered or rejected), and the statement after it runs
FairSpec == Init /\ [][BeforeAggregate]_vars /\ WF_vars(BeforeAggregate)

\* ------------------------------------------------------------------------
\* processAnalyticsData called on its own
\* ------------------------------------------------------------------------
InitAgg ==
    /\ LoaderEntered
    /\ upstreamSize = 1
    /\ tz \in TimeZones
    /\ argOrders \in Inputs
    /\ summary = NoAnalytics
    /\ reordered = << >>
    /\ summaryReordered = NoAnalytics
    /\ hostElsewhere = 0
    /\ summaryElsewhere = NoAnalytics
    /\ OrdersMounted

\* the call processAnalyticsData(orders)
Summarize ==
    /\ ~summary.computed
    /\ summary' = processAnalyticsData(argOrders, tz)
    /\ UNCHANGED << loaderVars, ordersVars, argOrders, reordered, summaryReordered,
                    hostElsewhere, summaryElsewhere >>

\* the call on the same orders in another sequence
SummarizeReordered ==
    /\ summary.computed
    /\ ~summaryReordered.computed
    /\ ~summaryElsewhere.computed
    /\ \E i \in 1..(Len(argOrders) - 1) :
          /\ reordered' = SwapAdjacent(argOrders, i)
          /\ summaryReordered' = processAnalyticsData(reordered', tz)
    /\ UNCHANGED << loaderVars, ordersVars, argOrders, summary, hostElsewhere, summaryElsewhere >>

\* the call on the same orders on a host of another time zone
SummarizeElsewhere ==
    /\ summary.computed
    /\ ~summaryReordered.computed
    /\ ~summaryElsewhere.computed
    /\ \E zone \in HostZones \ {tz} :
          /\ hostElsewhere' = zone
          /\ summaryElsewhere' = processAnalyticsData(argOrders, zone)
    /\ UNCHANGED << loaderVars, ordersVars, argOrders, summary, reordered, summaryReordered >>

NextAgg ==
    \/ Summarize
    \/ SummarizeReordered
    \/ SummarizeElsewhere

SpecAgg == InitAgg /\ [][NextAgg]_vars

\* ------------------------------------------------------------------------
\* Properties
\* ------------------------------------------------------------------------
RECURSIVE Flatten(_)
Flatten(pages) == IF pages = << >> THEN << >> ELSE Head(pages) \o Flatten(Tail(pages))

AfterLoopPcs == {"final", "products", "locations", "aggregate", "done"}
AfterLoop == pc \in AfterLoopPcs

\* C1: when a page after the first fails with its retries used up, the
\* loader does not throw and returns the summary of exactly the pages
\* accumulated before the failing page.
C1_PartialSuccess ==
    (pc = "done" /\ gaveUp /\ pageCount >= 1)
        => /\ outcome = "returned"
           /\ analytics = processAnalyticsData(EdgesOfIds(Flatten(received)), tz)

\* C2 as stated: when the first page fails with its retries used up, the
\* loader fails as a whole.
C2_FirstPageFatal ==
    (pc = "done" /\ gaveUp /\ pageCount = 0) => outcome = "threw"

\* C2 as amended: a first page that fails with its retries used up is not
\* fatal: the error is not propagated, the failure-truncation message is
\* logged, the loop is left with no order, the loader goes on to the products
\* and locations requests and computes the summary of the empty order list;
\* it throws only when one of those two bodies lacks its data.
C2_FirstPageDegrades ==
    (gaveUp /\ pageCount = 0)
        => /\ pc \in {"afterInner"} \cup AfterLoopPcs
           /\ allOrders = << >>
           /\ AfterLoop => "Stopping" \in signals
           /\ pc = "done"
                => /\ analytics = processAnalyticsData(<< >>, tz)
                   /\ analytics.totalOrders = 0
                   /\ (outcome = "threw") = ReturnThrows(productsData, locationsData)
                   /\ outcome \in {"threw", "returned"}

C2_Witness == pc = "done" /\ gaveUp /\ pageCount = 0 /\ outcome = "returned"

\* the failures C3 calls transient: throttling and network-level failures
TransientMessage(msg) == msg \in {"Throttled", "fetch failed"}

C4_CursorDiscipline ==
    (pc = "await" /\ pageCount > 0)
        => (Truthy(lastRequest.after) /\ lastRequest.after = lastEndCursor)

\* C5: a page is attempted at most 4 times, and the retry counter counts the
\* failures of the page being fetched only: it is 0 at the first attempt of
\* every page.
C5_RetryBound ==
    /\ attempts <= 4
    /\ retryCount <= 3
    /\ pc = "await" => attempts = retryCount + 1
    /\ Len(backoffs) = retryCount

\* page 2 gets its 4 attempts after a failure on page 1
C5_Witness ==
    pc = "await" /\ attempts = 4 /\ pageCount = 1 /\ requests = 6

\* the base C6 gives for a failure
ClaimedBase(msg) == IF TransientMessage(msg) THEN 4000 ELSE 3000

\* C6: the wait before the k-th retry is base * k, the base chosen by the
\* class of the failure, and the waits of one page are strictly increasing;
\* two throttling failures give the waits 4000 and 8000.
C6_Backoff ==
    /\ (pc = "inner" /\ ~success /\ retryCount > 0)
            => backoffs[retryCount] = ClaimedBase(lastFailure) * retryCount
    /\ \A i \in 1..(Len(backoffs) - 1) : backoffs[i] < backoffs[i + 1]
    /\ (success /\ pc = "inner") => Len(backoffs) = attempts - 1
    /\ (pc = "await" /\ attempts = 3 /\ lastFailure = "Throttled"
            /\ backoffs[1] = ThrottleBase)
            => (backoffs = << 4000, 8000 >>
                /\ SubSeq(lastRequest.delays, 1, 1) = << 8000 >>)

C6_Witness ==
    pc = "inner" /\ success /\ attempts = 3 /\ backoffs = << 4000, 8000 >>

\* C7: at most 20 pages are accumulated, and no orders request is in flight
\* or due once 20 pages were fetched.
C7_PageCap ==
    /\ pageCount <= 20
    /\ Len(received) <= 20
    /\ pc = "await" => pageCount < 20

C7_Witness == AfterLoop /\ pageCount = 20 /\ hasNextPage

\* C8: every orders request but the first of the invocation is sent right
\* after the 1.5 s pacing delay.
C8_Pacing ==
    (pc = "await" /\ requests > 1)
        => /\ lastRequest.delays # << >>
           /\ lastRequest.delays[Len(lastRequest.delays)] = 1500

\* C9: the accumulated orders are the concatenation, in the order received,
\* of the edge lists of the successful responses, one per counted page; a
\* well-behaved upstream yields its pages 1..pageCount in order.
C9_FetchOutput ==
    /\ allOrders = Flatten(received)
    /\ Len(received) = pageCount
    /\ anomalies = 0 => received = [p \in 1..pageCount |-> Page(p)]

C9_Witness ==
    pc = "await" /\ pageCount = 2 /\ lastFailure # "" /\ Len(allOrders) = 2 * OrdersPerPage

\* C10: the page-cap message and the failure-truncation message are never
\* both logged, and a run cut short by an unrecovered page failure has
\* logged the failure-truncation message once it is past the loop.
C10_TruncationSignals ==
    /\ ~({"MaxLimit", "Stopping"} \subseteq signals)
    /\ (gaveUp /\ AfterLoop) => "Stopping" \in signals
    /\ "Stopping" \in signals => gaveUp

C10_Witness ==
    pc = "done" /\ gaveUp /\ pageCount = 19 /\ signals = {"Stopping", "Finished"}

\* ------------------------------------------------------------------------
\* Properties of processAnalyticsData
\* ------------------------------------------------------------------------
\* the orders of the call, the positions of those counted in a month, and
\* the entries of the monthly collection for a month label
OrderAt(i) == argOrders[i].node
OrdersIn(label) ==
    {i \in 1..Len(argOrders) : /\ OrderAt(i).processedAt # NoTimestamp
                              /\ MonthLabel(OrderAt(i).processedAt, tz) = label}
EntriesOf(label) ==
    {i \in 1..Len(summary.monthlyData) : summary.monthlyData[i].month = label}

\* C11: the monthly collection has an entry for each of the twelve months
\* of 2025, and the entry of a month with no order has orders = 0 and
\* revenue = 0.
C11_MonthlyZeroFill ==
    summary.computed =>
        \A m \in 1..12 :
            /\ EntriesOf(months2025[m]) # {}
            /\ OrdersIn(months2025[m]) = {} =>
                  \A i \in EntriesOf(months2025[m]) :
                      /\ summary.monthlyData[i].orders = 0
                      /\ summary.monthlyData[i].revenue = Zero

\* orders in March and in November 2025 only: twelve entries, ten at zero
C11_Witness ==
    /\ summary.computed
    /\ Len(argOrders) = 2
    /\ OrdersIn("Mar 2025") # {} /\ OrdersIn("Nov 2025") # {}
    /\ Len(summary.monthlyData) = 12
    /\ Cardinality({i \in 1..12 : summary.monthlyData[i].orders = 0
                                  /\ summary.monthlyData[i].revenue = Zero}) = 10

\* C12: an order processed in a month outside 2025 adds no entry to the
\* monthly collection, which always has exactly the 12 entries of 2025.
C12_OutOfYearExcluded ==
    summary.computed =>
        /\ Len(summary.monthlyData) = 12
        /\ \A i \in 1..Len(summary.monthlyData) :
              \E m \in 1..12 : summary.monthlyData[i].month = months2025[m]

\* the place of a month label in time: 12 * year + month
LabelYears == 2023..2027
MonthOrdinal(label) ==
    LET ym == CHOOSE ym \in LabelYears \X (1..12) :
                  label = MonthNames[ym[2]] \o " " \o ToString(ym[1])
    IN  12 * ym[1] + ym[2]

\* C13: the monthly collection is in chronological order of its month
\* labels.
C13_Chronological ==
    summary.computed =>
        \A i, j \in 1..Len(summary.monthlyData) :
            i < j => MonthOrdinal(summary.monthlyData[i].month)
                        < MonthOrdinal(summary.monthlyData[j].month)

\* C14: averageOrderValue is 0 for the empty order sequence, with
\* totalOrders = 0 and totalRevenue = 0, is totalRevenue divided by the
\* number of orders otherwise, and is never NaN or Infinity.
C14_ZeroDivisionGuard ==
    summary.computed =>
        /\ summary.totalOrders = Len(argOrders)
        /\ Len(argOrders) = 0 =>
              /\ summary.averageOrderValue = Zero
              /\ summary.totalRevenue = Zero
        /\ Len(argOrders) > 0 =>
              summary.averageOrderValue = NumOver(summary.totalRevenue, Len(argOrders))
        /\ summary.averageOrderValue.kind = "finite"

\* the empty order sequence, summarised
C14_Witness ==
    /\ summary.computed
    /\ argOrders = << >>
    /\ summary.totalOrders = 0
    /\ summary.averageOrderValue = Zero

\* the customer identifiers seen, and the number of orders of each
CustomersSeen ==
    {OrderAt(i).customer : i \in {k \in 1..Len(argOrders) : OrderAt(k).customer # Null}}
OrdersOfCustomer(c) == Cardinality({i \in 1..Len(argOrders) : OrderAt(i).customer = c})

\* C15: each customer seen is counted once, as new with 1 order, as
\* returning with 2 to 4 orders, as vip with 5 or more; the three counters
\* add up to the number of customers seen, and orders without a customer
\* count nowhere.
C15_CustomerSegments ==
    summary.computed =>
        /\ summary.customerSegments.new
              = Cardinality({c \in CustomersSeen : OrdersOfCustomer(c) = 1})
        /\ summary.customerSegments.returning
              = Cardinality({c \in CustomersSeen : OrdersOfCustomer(c) \in 2..4})
        /\ summary.customerSegments.vip
              = Cardinality({c \in CustomersSeen : OrdersOfCustomer(c) >= 5})
        /\ summary.customerSegments.new + summary.customerSegments.returning
              + summary.customerSegments.vip = Cardinality(CustomersSeen)

\* a customer with exactly four orders next to an order without customer:
\* one returning customer, no vip
C15_Witness ==
    /\ summary.computed
    /\ \E c \in CustomersSeen : OrdersOfCustomer(c) = 4
    /\ \E i \in 1..Len(argOrders) : OrderAt(i).customer = Null
    /\ summary.customerSegments = [new |-> 0, returning |-> 1, vip |-> 0]

\* the entries of a list, without their positions
EntrySet(list) == {list[i] : i \in 1..Len(list)}

\* C16: exchanging two neighbouring orders (and so, step by step, any
\* permutation) leaves totalOrders, totalRevenue, fulfilledOrders, paidOrders
\* and the segment counts as they were, every month's entry as it was, and
\* every product and location listed before and after with the same counts
\* and sums; positions in the two top lists are not compared
C16_Commutative ==
    summaryReordered.computed =>
        /\ summaryReordered.totalOrders = summary.totalOrders
        /\ summaryReordered.totalRevenue = summary.totalRevenue
        /\ summaryReordered.fulfilledOrders = summary.fulfilledOrders
        /\ summaryReordered.paidOrders = summary.paidOrders
        /\ summaryReordered.customerSegments = summary.customerSegments
        /\ EntrySet(summaryReordered.monthlyData) = EntrySet(summary.monthlyData)
        /\ \A p \in EntrySet(summary.productData),
              q \in EntrySet(summaryReordered.productData) :
                p.name = q.name => p = q
        /\ \A p \in EntrySet(summary.locationData),
              q \in EntrySet(summaryReordered.locationData) :
                p.location = q.location => p = q

\* the line items of the orders that have a product, in input order
ItemsOf(orders) ==
    Flatten([i \in 1..Len(orders) |->
               SelectSeq(orders[i].node.lineItems, LAMBDA item : item.product.present)])

RECURSIVE SumOver(_, _)
SumOver(S, f) ==
    IF S = {} THEN 0
    ELSE LET x == CHOOSE y \in S : TRUE IN f[x] + SumOver(S \ {x}, f)

\* the least element of a non-empty set of numbers
Least(S) == CHOOSE x \in S : \A y \in S : x <= y

TitlesIn(items) == {items[i].product.title : i \in 1..Len(items)}
ItemsTitled(items, title) == {i \in 1..Len(items) : items[i].product.title = title}
QuantityOf(items, title) ==
    SumOver(ItemsTitled(items, title), [i \in 1..Len(items) |-> items[i].quantity])

\* title ranks before other: more units, or as many and met earlier
RanksBefore(items, title, other) ==
    \/ QuantityOf(items, title) > QuantityOf(items, other)
    \/ /\ QuantityOf(items, title) = QuantityOf(items, other)
       /\ Least(ItemsTitled(items, title)) < Least(ItemsTitled(items, other))

\* C17: productData lists products by cumulative quantity, largest first,
\* products of equal quantity in the order they were first met, cut to 10
\* entries; a product left out has no more units than any listed one
C17_TopProducts ==
    summary.computed =>
        LET items == ItemsOf(argOrders)
            list == summary.productData
            listed == {list[i].name : i \in 1..Len(list)}
        IN  /\ Len(list) = IF Cardinality(TitlesIn(items)) < 10
                           THEN Cardinality(TitlesIn(items)) ELSE 10
            /\ listed \subseteq TitlesIn(items)
            /\ \A i \in 1..Len(list) : list[i].quantity = QuantityOf(items, list[i].name)
            /\ \A i, j \in 1..Len(list) :
                    i < j => RanksBefore(items, list[i].name, list[j].name)
            /\ \A title \in TitlesIn(items) \ listed : \A i \in 1..Len(list) :
                    QuantityOf(items, title) <= list[i].quantity

\* more than 10 products, some of equal quantity, one of them left out
C17_Witness ==
    /\ summary.computed
    /\ Cardinality(TitlesIn(ItemsOf(argOrders))) > 10
    /\ Len(summary.productData) = 10
    /\ \E i, j \in 1..10 : i < j /\ summary.productData[i].quantity
                                      = summary.productData[j].quantity
    /\ summary.productData[1].quantity > summary.productData[10].quantity

\* the location an order with a shipping address is counted under
LocationOf(order) ==
    IF order.shippingAddress.city # "" THEN order.shippingAddress.city ELSE "Unknown"

Shipped(orders) == {i \in 1..Len(orders) : orders[i].node.shippingAddress.present}
LocationsIn(orders) == {LocationOf(orders[i].node) : i \in Shipped(orders)}
OrdersAt(orders, location) ==
    {i \in Shipped(orders) : LocationOf(orders[i].node) = location}

\* C18: locationData lists locations by order count, largest first,
\* locations of equal count in the order they were first met, cut to 10
\* entries; a location left out has no more orders than any listed one
C18_TopLocations ==
    summary.computed =>
        LET list == summary.locationData
            listed == {list[i].location : i \in 1..Len(list)}
            count == [l \in LocationsIn(argOrders) |-> Cardinality(OrdersAt(argOrders, l))]
            first == [l \in LocationsIn(argOrders) |-> Least(OrdersAt(argOrders, l))]
        IN  /\ Len(list) = IF Cardinality(LocationsIn(argOrders)) < 10
                           THEN Cardinality(LocationsIn(argOrders)) ELSE 10
            /\ listed \subseteq LocationsIn(argOrders)
            /\ \A i \in 1..Len(list) : list[i].orders = count[list[i].location]
            /\ \A i, j \in 1..Len(list) : i < j =>
                    \/ list[i].orders > list[j].orders
                    \/ /\ list[i].orders = list[j].orders
                       /\ first[list[i].location] < first[list[j].location]
            /\ \A l \in LocationsIn(argOrders) \ listed : \A i \in 1..Len(list) :
                    count[l] <= list[i].orders

\* more than 10 locations: the list is cut, ties among the listed ones
C18_Witness ==
    /\ summary.computed
    /\ Cardinality(LocationsIn(argOrders)) > 10
    /\ Len(summary.locationData) = 10
    /\ summary.locationData[1].orders = 2
    /\ summary.locationData[9].orders = summary.locationData[10].orders

StatusesSeen == {argOrders[i].node.displayFulfillmentStatus : i \in 1..Len(argOrders)}

\* C19: fulfilledOrders is the number of orders whose fulfillment status is
\* exactly FULFILLED, paidOrders the number whose financial status is exactly
\* PAID; neither exceeds totalOrders
C19_StatusCounts ==
    summary.computed =>
        /\ summary.fulfilledOrders =
              Cardinality({i \in 1..Len(argOrders) :
                             argOrders[i].node.displayFulfillmentStatus = "FULFILLED"})
        /\ summary.paidOrders =
              Cardinality({i \in 1..Len(argOrders) :
                             argOrders[i].node.displayFinancialStatus = "PAID"})
        /\ summary.fulfilledOrders <= summary.totalOrders
        /\ summary.paidOrders <= summary.totalOrders

\* orders of a recognized, of another and of an unrecognized status together
C19_Witness ==
    /\ summary.computed
    /\ {"FULFILLED", "PARTIALLY_FULFILLED", "fulfilled"} \subseteq StatusesSeen
    /\ summary.fulfilledOrders > 0
    /\ summary.fulfilledOrders < summary.totalOrders
    /\ summary.paidOrders < summary.totalOrders

\* the revenue of the first k line items titled title, added up in input order
RECURSIVE RevenueOf(_, _, _)
RevenueOf(items, k, title) ==
    IF k = 0 THEN Zero
    ELSE IF items[k].product.title = title
    THEN NumAdd(RevenueOf(items, k - 1, title),
                NumTimes(items[k].quantity, parseFloat(items[k].price)))
    ELSE RevenueOf(items, k - 1, title)

\* C20: there is one product aggregate per title, whatever the products'
\* ids; every line item of that title adds its quantity to the aggregate's
\* quantity, quantity times unit price to its revenue, and one to its orders
C20_ProductKey ==
    summary.computed =>
        LET items == ItemsOf(argOrders)
            list == summary.productData
        IN  /\ \A i, j \in 1..Len(list) : list[i].name = list[j].name => i = j
            /\ Cardinality(TitlesIn(items)) <= 10 =>
                    {list[i].name : i \in 1..Len(list)} = TitlesIn(items)
            /\ \A i \in 1..Len(list) :
                    /\ list[i].name \in TitlesIn(items)
                    /\ list[i].quantity = QuantityOf(items, list[i].name)
                    /\ list[i].orders = Cardinality(ItemsTitled(items, list[i].name))
                    /\ list[i].revenue = RevenueOf(items, Len(items), list[i].name)

\* two products of one title and different ids, merged into one aggregate
C20_Witness ==
    /\ summary.computed
    /\ \E i, j \in 1..Len(ItemsOf(argOrders)) :
          /\ ItemsOf(argOrders)[i].product.title = ItemsOf(argOrders)[j].product.title
          /\ ItemsOf(argOrders)[i].product.id # ItemsOf(argOrders)[j].product.id
    /\ \E k \in 1..Len(summary.productData) :
          /\ summary.productData[k].name = "Widget"
          /\ summary.productData[k].orders >= 2
          /\ summary.productData[k].quantity >= 3

\* the orders without a shipping address, or with an address without a city
WithoutCity(orders) ==
    {i \in 1..Len(orders) : \/ ~orders[i].node.shippingAddress.present
                            \/ orders[i].node.shippingAddress.city = ""}

\* C21: the orders without a shipping address and those whose address has
\* no city are all counted under the location "Unknown" (checked where the
\* location list is not cut)
C21_UnknownFallback ==
    (summary.computed /\ Len(summary.locationData) < 10
        /\ WithoutCity(argOrders) # {}) =>
        \E k \in 1..Len(summary.locationData) :
            /\ summary.locationData[k].location = "Unknown"
            /\ summary.locationData[k].orders = Cardinality(WithoutCity(argOrders))

\* 350 / 3 and 116.67 as numbers: 116.66666666666667 and the number nearest
\* to 116.67
ThirdOf350 == [kind |-> "finite", m |-> << 11184811, 2796202, 29 >>, e |-> 0 - 46]
ClaimedAverage == NumOver(NumOfNat(11667), 100)

\* the scenario's expectations apart from averageOrderValue
ScenarioRest ==
    /\ summary.totalOrders = 3
    /\ summary.totalRevenue = NumOfNat(350)
    /\ summary.fulfilledOrders = 2
    /\ summary.paidOrders = 2
    /\ Len(summary.monthlyData) = 12
    /\ \A i \in 1..12 :
          summary.monthlyData[i] =
            [month |-> months2025[i],
             orders |-> IF i = 3 THEN 2 ELSE IF i = 4 THEN 1 ELSE 0,
             revenue |-> IF i = 3 THEN NumOfNat(150)
                         ELSE IF i = 4 THEN NumOfNat(200) ELSE Zero]
    /\ summary.productData =
          << [name |-> "Gadget", quantity |-> 4, revenue |-> NumOfNat(200), orders |-> 1],
             [name |-> "Widget", quantity |-> 3, revenue |-> NumOfNat(150), orders |-> 2] >>
    /\ summary.customerSegments = [new |-> 1, returning |-> 1, vip |-> 0]
    /\ summary.locationData =
          << [location |-> "Springfield", orders |-> 2, revenue |-> NumOfNat(150)],
             [location |-> "Shelbyville", orders |-> 1, revenue |-> NumOfNat(200)] >>

InPage == pc \in {"inner", "await", "afterInner"}

\* the pages whose requests are all sent: the counted ones, without the one
\* just counted while its inner loop is not yet left, with the one given up
PagesSettled ==
    IF InPage THEN pageCount - (IF success THEN 1 ELSE 0)
    ELSE pageCount + (IF gaveUp THEN 1 ELSE 0)

\* no page takes more than maxRetries + 1 requests, no more than MAX_PAGES
\* pages are asked for, hence at most 80 requests
RequestBound ==
    /\ pageCount <= MAX_PAGES
    /\ attempts <= maxRetries + 1
    /\ requests <= (maxRetries + 1) * PagesSettled + (IF InPage THEN attempts ELSE 0)
    /\ PagesSettled + (IF InPage THEN 1 ELSE 0) <= MAX_PAGES
    /\ requests <= 80

\* C23: whatever the upstream answers, at most 20 * 4 = 80 orders requests
\* are sent, the fetch loop is left, and the loader arrives at its call of
\* processAnalyticsData
C23_Termination == []RequestBound /\ <>(pc = "aggregate")

\* a run with retried requests and all 20 pages, arrived at the call
C23_Witness ==
    /\ pc = "aggregate"
    /\ pageCount = MAX_PAGES
    /\ requests > MAX_PAGES + maxRetries

\* C24: processAnalyticsData returns the same summary for the same orders
\* whatever the time zone of the host it runs on
C24_Deterministic ==
    summaryElsewhere.computed => summaryElsewhere = summary

\* the timestamp an order would be bucketed by: processedAt, or createdAt
\* when there is no processedAt
BucketStamp(order) ==
    IF order.processedAt # NoTimestamp THEN order.processedAt ELSE order.createdAt

\* C25: every order with a processed or a created timestamp is counted in
\* the monthly bucket of that timestamp's month
C25_BucketByTimestamp ==
    summary.computed =>
        \A i \in 1..Len(summary.monthlyData) :
            summary.monthlyData[i].orders =
                Cardinality({k \in 1..Len(argOrders) :
                    /\ BucketStamp(argOrders[k].node) # NoTimestamp
                    /\ MonthLabel(BucketStamp(argOrders[k].node), tz)
                         = summary.monthlyData[i].month})

\* the amounts of the first k orders, added up in input order
RECURSIVE AmountsOf(_, _)
AmountsOf(orders, k) ==
    IF k = 0 THEN Zero
    ELSE NumAdd(AmountsOf(orders, k - 1), parseFloat(orders[k].node.amount))

\* the anomalies of an order
AnomaliesOf(order) ==
    {a \in Anomalies :
        \/ a = "processedAt" /\ order.processedAt = NoTimestamp
        \/ a = "customer" /\ order.customer = Null
        \/ a = "shippingAddress" /\ ~order.shippingAddress.present
        \/ a = "status" /\ order.displayFulfillmentStatus
                               \notin {"FULFILLED", "UNFULFILLED", "PARTIALLY_FULFILLED"}}

\* C26: orders without processedAt, without customer, without shipping
\* address or of an unrecognized status, in any combination, do not keep
\* processAnalyticsData from returning, and each of them is counted in
\* totalOrders and its amount in totalRevenue
C26_AnomaliesNotFatal ==
    summary.computed =>
        /\ summary.totalOrders = Len(argOrders)
        /\ summary.totalRevenue = AmountsOf(argOrders, Len(argOrders))
        /\ summary.totalRevenue.kind = "finite"

\* an order with all four anomalies, counted in the totals and nowhere else
C26_Witness ==
    /\ summary.computed
    /\ argOrders = << [node |-> AnomalyOrder(Anomalies)] >>
    /\ AnomaliesOf(argOrders[1].node) = Anomalies
    /\ summary.totalOrders = 1
    /\ summary.totalRevenue = parseFloat("29.99")
    /\ summary.fulfilledOrders = 0
    /\ summary.locationData = << >>
    /\ summary.customerSegments = [new |-> 0, returning |-> 0, vip |-> 0]

\* the positions past the message written after the loop
PastFinalLog == pc \in AfterLoopPcs \ {"final"}

\* C27: once the loop is left, exactly one final message is logged: the
\* page-cap message when 20 pages were fetched, whatever the has-more flag
\* of the 20th response, and the finished message otherwise, also after a
\* page failure; before that, neither is logged
C27_FinalSignal ==
    /\ PastFinalLog =>
          /\ ("MaxLimit" \in signals) = (pageCount = MAX_PAGES)
          /\ ("Finished" \in signals) = (pageCount < MAX_PAGES)
          /\ (gaveUp => "Finished" \in signals)
    /\ ~PastFinalLog => signals \cap {"MaxLimit", "Finished"} = {}
    /\ pageCount <= MAX_PAGES

\* a complete dataset of exactly 20 pages, reported with the page-cap message
C27_Witness ==
    /\ pc = "done"
    /\ pageCount = MAX_PAGES
    /\ ~hasNextPage
    /\ ~gaveUp
    /\ anomalies = 0
    /\ signals = {"MaxLimit"}

\* C28: whatever the products and the locations requests answered, the
\* loader returns the summary and does not throw, and the list of a request
\* that was rejected or answered without data is empty
C28_SideRequestsTolerated ==
    pc = "done" =>
        /\ outcome = "returned"
        /\ analytics.computed
        /\ ~productsData.hasData => productsData.edges = << >>
        /\ ~locationsData.hasData => locationsData.edges = << >>

\* ------------------------------------------------------------------------
\* The Orders list: pagination and filters
\* ------------------------------------------------------------------------
\* the rows and the number of pages of the current render
filteredAndSortedOrders ==
    FilteredAndSortedOrders(queryValue, paymentStatus, fulfillmentStatus,
                            orderTotal, customerName, sortSelected[1])
totalPages == TotalPages(Len(filteredAndSortedOrders))
paginatedOrders == PaginatedOrders(filteredAndSortedOrders, currentPage)

\* setCurrentPage(page)
handlePageChange(page) == currentPage' = page

\* onNext, offered while hasNext
OnNext ==
    /\ currentPage < totalPages
    /\ handlePageChange(currentPage + 1)
    /\ UNCHANGED << loaderVars, callVars, filterVars, viewVars >>

\* onPrevious, offered while hasPrevious
OnPrevious ==
    /\ currentPage > 1
    /\ handlePageChange(currentPage - 1)
    /\ UNCHANGED << loaderVars, callVars, filterVars, viewVars >>

\* onQueryChange, and onQueryClear with the empty text
HandleFiltersQueryChange ==
    /\ \E value \in QueryValues : queryValue' = value
    /\ UNCHANGED << loaderVars, callVars, viewVars, currentPage, paymentStatus,
                    fulfillmentStatus, orderTotal, customerName, sortSelected >>

\* handlePaymentStatusChange, and handlePaymentStatusRemove with undefined
HandlePaymentStatusChange ==
    /\ \E value \in PaymentValues : paymentStatus' = value
    /\ UNCHANGED << loaderVars, callVars, viewVars, currentPage, queryValue,
                    fulfillmentStatus, orderTotal, customerName, sortSelected >>

\* handleFulfillmentStatusChange, and its removal
HandleFulfillmentStatusChange ==
    /\ \E value \in FulfillmentValues : fulfillmentStatus' = value
    /\ UNCHANGED << loaderVars, callVars, viewVars, currentPage, queryValue,
                    paymentStatus, orderTotal, customerName, sortSelected >>

\* handleOrderTotalChange, and its removal
HandleOrderTotalChange ==
    /\ \E value \in TotalRanges : orderTotal' = value
    /\ UNCHANGED << loaderVars, callVars, viewVars, currentPage, queryValue,
                    paymentStatus, fulfillmentStatus, customerName, sortSelected >>

\* handleCustomerNameChange, and its removal
HandleCustomerNameChange ==
    /\ \E value \in CustomerNames : customerName' = value
    /\ UNCHANGED << loaderVars, callVars, viewVars, currentPage, queryValue,
                    paymentStatus, fulfillmentStatus, orderTotal, sortSelected >>

\* the five removals of handleFiltersClearAll
HandleFiltersClearAll ==
    /\ paymentStatus' = NoChoice
    /\ fulfillmentStatus' = NoChoice
    /\ orderTotal' = NoRange
    /\ customerName' = NoText
    /\ queryValue' = NoText
    /\ UNCHANGED << loaderVars, callVars, viewVars, currentPage, sortSelected >>

\* onSort = setSortSelected
OnSort ==
    /\ \E value \in SortValues : sortSelected' = << value >>
    /\ UNCHANGED << loaderVars, callVars, viewVars, currentPage, queryValue,
                    paymentStatus, fulfillmentStatus, orderTotal, customerName >>

\* the Orders component alone: the loader and processAnalyticsData belong
\* to another route
InitOrders ==
    /\ LoaderEntered
    /\ upstreamSize = 1
    /\ tz = 0
    /\ NoCall
    /\ OrdersMounted

NextPages ==
    \/ OnNext
    \/ OnPrevious
    \/ HandleFiltersQueryChange
    \/ HandlePaymentStatusChange
    \/ HandleFulfillmentStatusChange
    \/ HandleOrderTotalChange
    \/ HandleCustomerNameChange
    \/ HandleFiltersClearAll
    \/ OnSort

SpecPages == InitOrders /\ [][NextPages]_vars

\* ------------------------------------------------------------------------
\* The Orders list: saved views
\* ------------------------------------------------------------------------
\* the names typed into the dialogs
NewViewName == "New view"
RenamedName == "Renamed"
CopyName == "Copy"

\* the indexes of the tabs that have actions: every tab but the locked first
ActionTabs == 1..(Len(itemStrings) - 1)

\* a callback that sleeps, with the itemStrings of the render it closes over
Callback(type, index, value) ==
    [type |-> type, itemStrings |-> itemStrings, index |-> index, value |-> value]

Start(callback) ==
    /\ started < MaxCallbacks
    /\ started' = started + 1
    /\ inFlight' = inFlight \cup {callback}
    /\ UNCHANGED << loaderVars, callVars, pagingVars, itemStrings, selected >>

\* onSelect = setSelected, with the index of a tab of the current render
OnSelect ==
    /\ \E index \in 0..(Len(itemStrings) - 1) : selected' = index
    /\ UNCHANGED << loaderVars, callVars, pagingVars, itemStrings, inFlight, started >>

\* onCreateNewView up to its sleep(500)
StartCreateNewView ==
    \E value \in {NewViewName} : Start(Callback("create", 0, value))

\* onPrimaryAction of rename up to its sleep(1)
StartRename == \E index \in ActionTabs : Start(Callback("rename", index, RenamedName))

\* onPrimaryAction of duplicate up to its sleep(1)
StartDuplicate == \E index \in ActionTabs : Start(Callback("duplicate", index, CopyName))

\* onPrimaryAction of delete up to its sleep(1)
StartDelete == \E index \in ActionTabs : Start(Callback("delete", index, ""))

\* a callback leaves the set when it has acted
Finish(callback) ==
    /\ inFlight' = inFlight \ {callback}
    /\ UNCHANGED << loaderVars, callVars, pagingVars, started >>

\* [...itemStrings, name]
WithView(views, name) == Append(views, name)

\* newItemStrings.splice(index, 1)
WithoutView(views, index) ==
    SubSeq(views, 1, index) \o SubSeq(views, index + 2, Len(views))

\* tabs.map(...): the name at the index replaced
WithRenamed(views, index, name) ==
    [k \in 1..Len(views) |-> IF k - 1 = index THEN name ELSE views[k]]

\* onCreateNewView after its sleep
CreateNewViewActs ==
    \E callback \in inFlight :
        /\ callback.type = "create"
        /\ itemStrings' = WithView(callback.itemStrings, callback.value)
        /\ selected' = Len(callback.itemStrings)
        /\ Finish(callback)

\* rename after its sleep: setItemStrings(newItemsStrings)
RenameActs ==
    \E callback \in inFlight :
        /\ callback.type = "rename"
        /\ itemStrings' = WithRenamed(callback.itemStrings, callback.index, callback.value)
        /\ UNCHANGED selected
        /\ Finish(callback)

\* duplicate after its sleep: duplicateView(value)
DuplicateActs ==
    \E callback \in inFlight :
        /\ callback.type = "duplicate"
        /\ itemStrings' = WithView(callback.itemStrings, callback.value)
        /\ selected' = Len(callback.itemStrings)
        /\ Finish(callback)

\* delete after its sleep: deleteView(index)
DeleteActs ==
    \E callback \in inFlight :
        /\ callback.type = "delete"
        /\ itemStrings' = WithoutView(callback.itemStrings, callback.index)
        /\ selected' = 0
        /\ Finish(callback)

NextViews ==
    \/ OnSelect
    \/ StartCreateNewView
    \/ StartRename
    \/ StartDuplicate
    \/ StartDelete
    \/ CreateNewViewActs
    \/ RenameActs
    \/ DuplicateActs
    \/ DeleteActs

SpecViews == InitOrders /\ [][NextViews]_vars

\* C29: whatever next and previous clicks and changes of the search, the
\* filters and the sort were made, the current page is one of the pages
\* 1..max(1, totalPages) of the filtered list, and a filtered list that is
\* not empty does not show an empty page
C29_PageInRange ==
    /\ currentPage >= 1
    /\ currentPage <= (IF totalPages > 1 THEN totalPages ELSE 1)
    /\ filteredAndSortedOrders # << >> => paginatedOrders # << >>

\* C30: however the delayed view callbacks interleave, the selected index
\* refers to a view of the list, and the first view stays the locked 'All'
C30_ViewsValid ==
    /\ selected \in 0..(Len(itemStrings) - 1)
    /\ Len(itemStrings) >= 1
    /\ itemStrings[1] = "All"
====
